---- MODULE Spec2Model ----
(***************************************************************************)
(* Face attendance: the recognition page (LiveAttendance), the enrollment  *)
(* page (FaceRegistration), the matcher (faceApi.ts), the reference store  *)
(* (IndexedDB) and the two hosted tables (employees, attendance).          *)
(*                                                                         *)
(* Units.  Embedding coordinates are integers, one unit = 0.1.  A distance *)
(* d is carried by the natural number (10 d)^2, the sum that line 53 of    *)
(* faceApi.ts hands to Math.sqrt: Math.sqrt is strictly increasing, so the *)
(* comparisons of two distances (faceApi.ts:66, LiveAttendance:170) are    *)
(* the comparisons of these numbers, and Math.round((1 - d) * 100) is      *)
(* computed from it exactly by Confidence.  Times of day are milliseconds  *)
(* since local midnight.                                                   *)
(***************************************************************************)
EXTENDS Integers, Sequences, FiniteSets, TLC

(***************************************************************************)
(* Bounds of the model.                                                    *)
(***************************************************************************)
MaxInserts == 2     \* attendance inserts issued by one page visit

(***************************************************************************)
(* Program constants.                                                      *)
(***************************************************************************)
Dist(tenths) == tenths * tenths

MATCH_THRESHOLD == Dist(5)          \* 0.5

WORK_START == 32400000              \* setHours(9, 0, 0, 0)

RECENT_KEPT == 9                    \* prev.slice(0, 9)

(***************************************************************************)
(* The world of the model: two enrolled identities, the frames the camera  *)
(* can show, the instants the clock can show.                              *)
(***************************************************************************)
EmployeeIds == {"E1", "E2"}

V == <<0, 0>>

\* E1's enrollment: five embeddings clustered around V.  E2's: one, far away.
E1Descriptors == << <<0, 0>>, <<-1, 0>>, <<0, -1>>, <<0, 1>>, <<-1, 1>> >>

E2Descriptors == << <<20, 0>> >>

NoFace == <<>>

\* NoFace, then V + noise at distance 0.1, 0.5 and 0.9 of V, then E2's own.
Scenes == {NoFace, <<1, 0>>, <<5, 0>>, <<9, 0>>, <<20, 0>>}

TimesOfDay == {WORK_START - 1000, WORK_START, WORK_START + 1000}

\* The day of the visit and the day after.
Days == {1, 2}

(***************************************************************************)
(* faceApi.ts                                                              *)
(***************************************************************************)
RECURSIVE SumSq(_, _, _)
SumSq(arr1, arr2, i) ==
    IF i > Len(arr1) THEN 0
    ELSE (arr1[i] - arr2[i]) * (arr1[i] - arr2[i]) + SumSq(arr1, arr2, i + 1)

\* Math.pow(arr1[i] + arr2[i], 2) in place of line 51
RECURSIVE SumSqOfSums(_, _, _)
SumSqOfSums(arr1, arr2, i) ==
    IF i > Len(arr1) THEN 0
    ELSE (arr1[i] + arr2[i]) * (arr1[i] + arr2[i]) + SumSqOfSums(arr1, arr2, i + 1)

euclideanDistanceSignSlip(arr1, arr2) == SumSqOfSums(arr1, arr2, 1)

euclideanDistanceOneSided(arr1, arr2) ==
    SumSq(arr1, arr2, 1) + SumSq(arr1, [k \in 1..Len(arr1) |-> 0], 1)

\* lines 48-54, less the Math.sqrt of line 53
euclideanDistance(arr1, arr2) == SumSq(arr1, arr2, 1)

\* The first stored embedding is kept whatever follows.
RECURSIVE BestOverFirst(_, _, _, _, _)
BestOverFirst(descriptor, employeeId, descs, j, bestMatch) ==
    IF j > Len(descs) THEN bestMatch
    ELSE LET distance == euclideanDistance(descriptor, descs[j])
             next == IF bestMatch = <<>>
                     THEN << [employeeId |-> employeeId, distance |-> distance] >>
                     ELSE bestMatch
         IN BestOverFirst(descriptor, employeeId, descs, j + 1, next)

\* distance <= bestMatch.distance in place of line 66
RECURSIVE BestOverLast(_, _, _, _, _)
BestOverLast(descriptor, employeeId, descs, j, bestMatch) ==
    IF j > Len(descs) THEN bestMatch
    ELSE LET distance == euclideanDistance(descriptor, descs[j])
             next == IF bestMatch = <<>> \/ distance <= bestMatch[1].distance
                     THEN << [employeeId |-> employeeId, distance |-> distance] >>
                     ELSE bestMatch
         IN BestOverLast(descriptor, employeeId, descs, j + 1, next)

\* The inner loop of findBestMatch over one identity's descriptors.
RECURSIVE BestOver(_, _, _, _, _)
BestOver(descriptor, employeeId, descs, j, bestMatch) ==
    IF j > Len(descs) THEN bestMatch
    ELSE LET distance == euclideanDistance(descriptor, descs[j])
             next == IF bestMatch = <<>> \/ distance < bestMatch[1].distance
                     THEN << [employeeId |-> employeeId, distance |-> distance] >>
                     ELSE bestMatch
         IN BestOver(descriptor, employeeId, descs, j + 1, next)

RECURSIVE BestFrom(_, _, _, _)
BestFrom(descriptor, storedDescriptors, i, bestMatch) ==
    IF i > Len(storedDescriptors) THEN bestMatch
    ELSE BestFrom(descriptor, storedDescriptors, i + 1,
                  BestOver(descriptor, storedDescriptors[i].employeeId,
                           storedDescriptors[i].descriptors, 1, bestMatch))

\* null when the first identity has no descriptors
findBestMatchNeedingFirst(descriptor, storedDescriptors) ==
    IF Len(storedDescriptors) > 0 /\ Len(storedDescriptors[1].descriptors) = 0
    THEN <<>>
    ELSE BestFrom(descriptor, storedDescriptors, 1, <<>>)

\* <<>> is null, << m >> is the match m.
findBestMatch(descriptor, storedDescriptors) ==
    BestFrom(descriptor, storedDescriptors, 1, <<>>)

(***************************************************************************)
(* LiveAttendance: the pure parts of detectAndMatch and markAttendance.    *)
(***************************************************************************)
IsAcceptedAtThreshold(match) == match # <<>> /\ match[1].distance <= MATCH_THRESHOLD

\* Any match is accepted, whatever its distance.
IsAcceptedAtAnyDistance(match) == match # <<>>

\* line 170: match && match.distance < MATCH_THRESHOLD
IsAccepted(match) == match # <<>> /\ match[1].distance < MATCH_THRESHOLD

\* line 174: Math.round((1 - match.distance) * 100), for the distance carried by s:
\* the c with c <= 100.5 - 10 sqrt(s) < c + 1.
AtMost(c, s) == 201 - 2 * c >= 0 /\ 400 * s <= (201 - 2 * c) * (201 - 2 * c)

\* Math.floor in place of Math.round
ConfidenceTruncated(s) ==
    CHOOSE c \in -400..100 :
        /\ 100 - c >= 0 /\ 100 * s <= (100 - c) * (100 - c)
        /\ ~(99 - c >= 0 /\ 100 * s <= (99 - c) * (99 - c))

Confidence(s) == CHOOSE c \in -400..100 : AtMost(c, s) /\ ~AtMost(c + 1, s)

StatusOfLateAtCutoff(tod) == IF tod >= WORK_START THEN "late" ELSE "present"

StatusOfAlwaysPresent(tod) == "present"

\* lines 209-213: now > workStartTime ? 'late' : 'present', both Dates of one instant.
StatusOf(tod) == IF tod > WORK_START THEN "late" ELSE "present"

(***************************************************************************)
(* State.                                                                  *)
(***************************************************************************)
VARIABLES
    \* the hosted tables, the IndexedDB object store, the clock
    employeesTable,     \* public.employees: set of [id, employee_id, is_active]
    attendanceTable,    \* public.attendance: bag of rows (row |-> number of copies)
    faceEncodings,      \* object store 'faceEncodings': set of [id, employeeId, descriptors]
    clockDay,           \* the local calendar day of the clock
    liveStreams,        \* MediaStreams whose tracks have not been stopped
    toast,              \* title of the last toast
    modelsLoaded,       \* faceApi.ts:3
    \* LiveAttendance
    initPc,             \* the await initializeAttendance is suspended at
    initToday,          \* `today` of line 82
    isModelLoading, isCameraActive, faceDetected, isProcessing,
    lastMatch, recentAttendance, markedToday, storedFaces, employees,
    videoRef,           \* videoRef.current and canvasRef.current: "el" or "null"
    streamRef,          \* 0 is null, i the stream of the i-th startCamera
    animationRef,       \* 0, or the loop whose requestAnimationFrame id it holds
    processLockRef,
    starts,             \* per startCamera invocation: its position and its closure
    timers,             \* pending setTimeout callbacks of line 193
    unmounted,          \* the component was torn down
    clicksLeft,         \* clicks on the start button the visitor still makes
    insertLog,          \* history: bag of the attendance inserts issued, with outcome
    \* FaceRegistration (it shares the names above that both pages declare)
    capturedDescriptors, capturedImages, formData,
    captures,           \* number of captureFrame calls awaiting detectFace
    submits,            \* per handleSubmit invocation: its position and its closure
    navigated,          \* navigate('/employees') was called
    \* the library functions called on their own
    call,               \* a function or handler called on its own, and its result
    deletion,           \* the deleteFaceEncoding in progress, and the last ended
    lookedUp,           \* what the last getFaceEncodingByEmployee returned
    loads               \* the calls of loadFaceApiModels and what they fetched

dbVars == <<employeesTable, attendanceTable, faceEncodings, clockDay, liveStreams,
            toast, modelsLoaded>>

liveVars == <<initPc, initToday, isModelLoading, isCameraActive, faceDetected,
              isProcessing, lastMatch, recentAttendance, markedToday, storedFaces,
              employees, videoRef, streamRef, animationRef, processLockRef,
              starts, timers, unmounted, clicksLeft, insertLog>>

regVars == <<capturedDescriptors, capturedImages, formData, captures, submits,
             navigated>>

\* What only the recognition page reads or writes.
recVars == <<attendanceTable, clockDay, initPc, initToday, lastMatch,
             recentAttendance, markedToday, storedFaces, employees,
             processLockRef, timers, insertLog>>

libVars == <<call, deletion, lookedUp, loads>>

vars == <<dbVars, liveVars, regVars, libVars>>

\* The startCamera invocations of one page visit: the click and a second click
\* made before the first getUserMedia has answered.
StartIds == {1, 2}

\* A state setter of a torn-down component changes nothing.
St(old, new) == IF unmounted THEN old ELSE new

(***************************************************************************)
(* indexedDb.ts                                                            *)
(***************************************************************************)
RECURSIVE InKeyOrder(_)
InKeyOrder(records) ==
    IF records = {} THEN <<>>
    ELSE LET first == CHOOSE r \in records : \A q \in records : r.id <= q.id
         IN <<first>> \o InKeyOrder(records \ {first})

\* db.getAll('faceEncodings'): the records in key order.
getFaceEncodings == InKeyOrder(faceEncodings)

RECURSIVE MapFaces(_)
\* line 67: encodings.map((e) => ({ employeeId, descriptors }))
MapFaces(encodings) ==
    IF encodings = <<>> THEN <<>>
    ELSE << [employeeId |-> Head(encodings).employeeId,
             descriptors |-> Head(encodings).descriptors] >> \o MapFaces(Tail(encodings))

(***************************************************************************)
(* The hosted tables.                                                      *)
(***************************************************************************)
\* .from('employees').select(...).eq('is_active', true)
ActiveEmployees == {e.id : e \in {r \in employeesTable : r.is_active}}

\* Bags: a function from the elements to their positive number of copies.
EmptyBag == <<>>

BagAdd(B, e) == IF e \in DOMAIN B THEN [B EXCEPT ![e] = @ + 1] ELSE B @@ (e :> 1)

BagRemove(B, e) == IF B[e] = 1 THEN [x \in DOMAIN B \ {e} |-> B[x]]
                   ELSE [B EXCEPT ![e] = @ - 1]

RECURSIVE BagSize(_, _)
BagSize(B, elems) ==
    IF elems = {} THEN 0
    ELSE LET e == CHOOSE x \in elems : TRUE
         IN B[e] + BagSize(B, elems \ {e})

\* .from('attendance').select('employee_id').eq('date', today), as line 89 uses it
EmployeesOn(rows, date) == {r.employee_id : r \in {x \in DOMAIN rows : x.date = date}}

PriorRow == [employee_id |-> "E1", date |-> 1, tod |-> WORK_START - 1000,
             confidence_score |-> 90, status |-> "present"]

(***************************************************************************)
(* Initial states of the recognition page.                                 *)
(***************************************************************************)
\* pc: the position of the invocation; storedFaces, employees, markedToday: what
\* its detectAndMatch closed over; attempt: what the frame of its current
\* iteration came to (history);
\* pending: the row of the insert it awaits.
IdleStart == [pc |-> "idle", storedFaces |-> <<>>, employees |-> {},
              markedToday |-> {}, attempt |-> "none", pending |-> <<>>]

InitDb ==
    /\ employeesTable = {[id |-> "E1", employee_id |-> "K1", is_active |-> TRUE],
                         [id |-> "E2", employee_id |-> "K2", is_active |-> FALSE]}
    /\ attendanceTable \in {EmptyBag, BagAdd(EmptyBag, PriorRow)}
    /\ faceEncodings = {[id |-> 1, employeeId |-> "E1", descriptors |-> E1Descriptors],
                        [id |-> 2, employeeId |-> "E2", descriptors |-> E2Descriptors]}
    /\ clockDay = 1
    /\ liveStreams = {}
    /\ toast = ""
    /\ modelsLoaded = FALSE

InitLive ==
    /\ initPc = "models"
    /\ initToday = 0
    /\ isModelLoading = TRUE
    /\ isCameraActive = FALSE
    /\ faceDetected = FALSE
    /\ isProcessing = FALSE
    /\ lastMatch = <<>>
    /\ recentAttendance = <<>>
    /\ markedToday = {}
    /\ storedFaces = <<>>
    /\ employees = {}
    \* Whether the <video> and <canvas> elements are attached when startCamera
    \* tests videoRef.current (line 107) is the renderer's doing: both cases.
    /\ videoRef \in {"null", "el"}
    /\ streamRef = 0
    /\ animationRef = 0
    /\ processLockRef = FALSE
    /\ starts = [i \in StartIds |-> IdleStart]
    /\ timers = 0
    /\ unmounted = FALSE
    /\ clicksLeft = 1
    /\ insertLog = EmptyBag

\* FaceRegistration's own state (lines 42-50) and its handlers at rest.
IdleSubmit == [pc |-> "idle", formData |-> <<>>, capturedDescriptors |-> <<>>,
               employee |-> "", result |-> "none"]

InitReg ==
    /\ capturedDescriptors = <<>>
    /\ capturedImages = <<>>
    /\ formData = [name |-> "", employeeId |-> "", department |-> ""]
    /\ captures = 0
    /\ submits = IdleSubmit
    /\ navigated = FALSE

\* No library function has been called on its own.
NoCall == [op |-> "none"]

\* No deleteFaceEncoding has been called.  pc: the position of the call;
\* encodings: what line 60 listed and the loop has yet to delete; found: how many
\* it listed, inserted: whether a record of employeeId was put since the call
\* began, saves: the saveFaceEncoding calls so far (history).
NoDeletion == [pc |-> "idle", employeeId |-> "", encodings |-> <<>>, found |-> 0,
               inserted |-> FALSE, saves |-> 0]

\* No getFaceEncodingByEmployee has been called.  pc: the position of the call;
\* result: what it resolved with, <<>> for undefined.
NoLookup == [pc |-> "idle", employeeId |-> "", result |-> <<>>]

MaxCallers == 4     \* callers of loadFaceApiModels

Callers == 1..MaxCallers

\* No loadFaceApiModels has been called.  pc: the position of each caller's call;
\* fetched: how many times lines 10-14 were run, failed: how many of those
\* rejected (history).
NoLoads == [pc |-> [c \in Callers |-> "idle"], fetched |-> 0, failed |-> 0]

InitLib ==
    /\ call = NoCall
    /\ deletion = NoDeletion
    /\ lookedUp = NoLookup
    /\ loads = NoLoads

Init == InitDb /\ InitLive /\ InitReg /\ InitLib

(***************************************************************************)
(* The environment.                                                        *)
(***************************************************************************)
\* Midnight passes.
NextDay ==
    /\ clockDay + 1 \in Days
    /\ clockDay' = clockDay + 1
    /\ UNCHANGED <<employeesTable, attendanceTable, faceEncodings, liveStreams,
                   toast, modelsLoaded, liveVars>>
    /\ UNCHANGED regVars
    /\ UNCHANGED libVars

(***************************************************************************)
(* LiveAttendance.initializeAttendance (lines 59-99): one action per await.*)
(***************************************************************************)
InitFailed ==
    /\ initPc' = "failed"
    /\ toast' = "Initialization error"

\* await loadFaceApiModels() resolves (line 62) or rejects (line 91).
InitLoadModels ==
    /\ initPc = "models"
    /\ \/ /\ modelsLoaded' = TRUE
          /\ isModelLoading' = St(isModelLoading, FALSE)
          /\ initPc' = "encodings"
          /\ UNCHANGED toast
       \/ /\ InitFailed
          /\ UNCHANGED <<modelsLoaded, isModelLoading>>
    /\ UNCHANGED <<employeesTable, attendanceTable, faceEncodings, clockDay,
                   liveStreams, initToday, isCameraActive, faceDetected,
                   isProcessing, lastMatch, recentAttendance, markedToday,
                   storedFaces, employees, videoRef, streamRef, animationRef,
                   processLockRef, starts, timers, unmounted, clicksLeft, insertLog>>
    /\ UNCHANGED regVars
    /\ UNCHANGED libVars

\* await getFaceEncodings() resolves (lines 66-67) or rejects.
InitLoadEncodings ==
    /\ initPc = "encodings"
    /\ \/ /\ storedFaces' = St(storedFaces, MapFaces(getFaceEncodings))
          /\ initPc' = "employees"
          /\ UNCHANGED toast
       \/ /\ InitFailed
          /\ UNCHANGED storedFaces
    /\ UNCHANGED <<employeesTable, attendanceTable, faceEncodings, clockDay,
                   liveStreams, modelsLoaded, initToday, isModelLoading,
                   isCameraActive, faceDetected, isProcessing, lastMatch,
                   recentAttendance, markedToday, employees, videoRef, streamRef,
                   animationRef, processLockRef, starts, timers, unmounted,
                   clicksLeft, insertLog>>
    /\ UNCHANGED regVars
    /\ UNCHANGED libVars

\* The employees query answers with data or with none (lines 70-79); `today` is
\* then formatted (line 82) and the attendance query issued.
InitLoadEmployees ==
    /\ initPc = "employees"
    /\ \E hasData \in BOOLEAN :
          employees' = IF hasData THEN St(employees, ActiveEmployees) ELSE employees
    /\ initToday' = clockDay
    /\ initPc' = "attendance"
    /\ UNCHANGED <<dbVars, isModelLoading, isCameraActive, faceDetected,
                   isProcessing, lastMatch, recentAttendance, markedToday,
                   storedFaces, videoRef, streamRef, animationRef,
                   processLockRef, starts, timers, unmounted, clicksLeft, insertLog>>
    /\ UNCHANGED regVars
    /\ UNCHANGED libVars

\* The attendance query answers with data or with none (lines 83-90).
InitLoadAttendance ==
    /\ initPc = "attendance"
    /\ \E hasData \in BOOLEAN :
          markedToday' = IF hasData
                         THEN St(markedToday, EmployeesOn(attendanceTable, initToday))
                         ELSE markedToday
    /\ initPc' = "done"
    /\ UNCHANGED <<dbVars, initToday, isModelLoading, isCameraActive, faceDetected,
                   isProcessing, lastMatch, recentAttendance, storedFaces,
                   employees, videoRef, streamRef, animationRef, processLockRef,
                   starts, timers, unmounted, clicksLeft, insertLog>>
    /\ UNCHANGED regVars
    /\ UNCHANGED libVars

(***************************************************************************)
(* LiveAttendance.startCamera (lines 101-121) and stopCamera (123-134).    *)
(***************************************************************************)
\* The click on 'Start Attendance' (line 280): the button is rendered when the
\* models are loaded and the camera is inactive, and enabled when storedFaces is
\* not empty.  The handler is the one of the last render: its detectAndMatch is
\* the useCallback of line 136 over the storedFaces, employees and markedToday
\* of that render (line 203), and that closure reschedules itself (line 202).
StartCameraClick(i) ==
    /\ ~unmounted
    /\ ~isModelLoading
    /\ ~isCameraActive
    /\ Len(storedFaces) > 0
    /\ clicksLeft > 0
    /\ clicksLeft' = clicksLeft - 1
    /\ starts[i].pc = "idle"
    /\ \A j \in StartIds : j < i => starts[j].pc # "idle"
    /\ starts' = [starts EXCEPT ![i] = [pc |-> "acquiring",
                                         storedFaces |-> storedFaces,
                                         employees |-> employees,
                                         markedToday |-> markedToday,
                                         attempt |-> "none",
                                         pending |-> <<>>]]
    /\ UNCHANGED <<dbVars, initPc, initToday, isModelLoading, isCameraActive,
                   faceDetected, isProcessing, lastMatch, recentAttendance,
                   markedToday, storedFaces, employees, videoRef, streamRef,
                   animationRef, processLockRef, timers, unmounted, insertLog>>
    /\ UNCHANGED regVars
    /\ UNCHANGED libVars

\* getUserMedia resolves with stream i (lines 103-112).  With the video element
\* attached the stream is kept, the page becomes active and detectAndMatch runs
\* up to its first requestAnimationFrame (the video is not yet at readyState 4).
StartCameraResolve(i) ==
    /\ starts[i].pc = "acquiring"
    /\ liveStreams' = liveStreams \cup {i}
    /\ IF videoRef = "el"
       THEN /\ streamRef' = i
            /\ isCameraActive' = St(isCameraActive, TRUE)
            /\ animationRef' = i
            /\ starts' = [starts EXCEPT ![i].pc = "scheduled"]
       ELSE /\ starts' = [starts EXCEPT ![i].pc = "returned"]
            /\ UNCHANGED <<streamRef, isCameraActive, animationRef>>
    /\ UNCHANGED <<employeesTable, attendanceTable, faceEncodings, clockDay,
                   toast, modelsLoaded, initPc, initToday, isModelLoading,
                   faceDetected, isProcessing, lastMatch, recentAttendance,
                   markedToday, storedFaces, employees, videoRef, processLockRef,
                   timers, unmounted, clicksLeft, insertLog>>
    /\ UNCHANGED regVars
    /\ UNCHANGED libVars

\* getUserMedia rejects (lines 113-120).
StartCameraReject(i) ==
    /\ starts[i].pc = "acquiring"
    /\ starts' = [starts EXCEPT ![i].pc = "rejected"]
    /\ toast' = "Camera access denied"
    /\ UNCHANGED <<employeesTable, attendanceTable, faceEncodings, clockDay,
                   liveStreams, modelsLoaded, initPc, initToday, isModelLoading,
                   isCameraActive, faceDetected, isProcessing, lastMatch,
                   recentAttendance, markedToday, storedFaces, employees,
                   videoRef, streamRef, animationRef, processLockRef, timers,
                   unmounted, clicksLeft, insertLog>>
    /\ UNCHANGED regVars
    /\ UNCHANGED libVars

\* The body of stopCamera.  cancelAnimationFrame(animationRef.current) removes
\* the request animationRef holds, if that request is still pending.
StopCameraBody ==
    /\ liveStreams' = IF streamRef # 0 THEN liveStreams \ {streamRef} ELSE liveStreams
    /\ streamRef' = 0
    /\ starts' = IF animationRef # 0 /\ starts[animationRef].pc = "scheduled"
                 THEN [starts EXCEPT ![animationRef].pc = "cancelled"]
                 ELSE starts
    /\ isCameraActive' = St(isCameraActive, FALSE)
    /\ faceDetected' = St(faceDetected, FALSE)
    /\ lastMatch' = St(lastMatch, <<>>)
    \* the next render leaves the branch of lines 286-339: the elements detach
    /\ videoRef' = "null"

\* The 'Stop Camera' button (line 344), rendered while the camera is active.
StopCamera ==
    /\ ~unmounted
    /\ isCameraActive
    /\ StopCameraBody
    /\ UNCHANGED <<employeesTable, attendanceTable, faceEncodings, clockDay,
                   toast, modelsLoaded, initPc, initToday, isModelLoading,
                   isProcessing, recentAttendance, markedToday, storedFaces,
                   employees, animationRef, processLockRef, timers, unmounted,
                   clicksLeft, insertLog>>
    /\ UNCHANGED regVars
    /\ UNCHANGED libVars

\* The effect's cleanup (line 56): the component is torn down.
Teardown ==
    /\ ~unmounted
    /\ StopCameraBody
    /\ unmounted' = TRUE
    /\ UNCHANGED <<employeesTable, attendanceTable, faceEncodings, clockDay,
                   toast, modelsLoaded, initPc, initToday, isModelLoading,
                   isProcessing, recentAttendance, markedToday, storedFaces,
                   employees, animationRef, processLockRef, timers, clicksLeft, insertLog>>
    /\ UNCHANGED regVars
    /\ UNCHANGED libVars

(***************************************************************************)
(* LiveAttendance.detectAndMatch (lines 136-203) and markAttendance        *)
(* (lines 205-245), cut at their awaits.                                   *)
(***************************************************************************)
\* A scheduled frame tick runs lines 137-151: without the elements it returns
\* (line 137); otherwise it awaits detectFace(video).
FrameTick(i) ==
    /\ starts[i].pc = "scheduled"
    /\ starts' = [starts EXCEPT ![i].pc = IF videoRef = "null" THEN "returned"
                                           ELSE "detecting",
                                 ![i].attempt = "none"]
    /\ UNCHANGED <<dbVars, initPc, initToday, isModelLoading, isCameraActive,
                   faceDetected, isProcessing, lastMatch, recentAttendance,
                   markedToday, storedFaces, employees, videoRef, streamRef,
                   animationRef, processLockRef, timers, unmounted, clicksLeft, insertLog>>
    /\ UNCHANGED regVars
    /\ UNCHANGED libVars

\* A scheduled frame tick finds the video not at readyState 4 (lines 143-146).
FrameTickNotReady(i) ==
    /\ starts[i].pc = "scheduled"
    /\ videoRef = "el"
    /\ animationRef' = i
    /\ UNCHANGED <<dbVars, initPc, initToday, isModelLoading, isCameraActive,
                   faceDetected, isProcessing, lastMatch, recentAttendance,
                   markedToday, storedFaces, employees, videoRef, streamRef,
                   processLockRef, starts, timers, unmounted, clicksLeft, insertLog>>
    /\ UNCHANGED regVars
    /\ UNCHANGED libVars

\* The matcher is given what the store holds now, in place of the closure's
\* storedFaces (line 168).
OutcomeOverStore(c, detection, lock) ==
    IF detection = NoFace THEN [kind |-> "noface"]
    ELSE IF lock \/ Len(c.storedFaces) = 0 THEN [kind |-> "skipped"]
    ELSE LET match == findBestMatch(detection, MapFaces(getFaceEncodings))
         IN IF ~IsAccepted(match) THEN [kind |-> "rejected", match |-> match]
            ELSE IF match[1].employeeId \notin c.employees
                 THEN [kind |-> "nometadata", match |-> match]
            ELSE LET employee == match[1].employeeId
                     confidence == Confidence(match[1].distance)
                 IN [kind |-> IF employee \in c.markedToday THEN "marked"
                                                           ELSE "insert",
                     match |-> match,
                     employee |-> employee, confidence |-> confidence]

\* What lines 155-200 decide for the closure c, the detection and the lock.
Outcome(c, detection, lock) ==
    IF detection = NoFace THEN [kind |-> "noface"]
    ELSE IF lock \/ Len(c.storedFaces) = 0 THEN [kind |-> "skipped"]
    ELSE LET match == findBestMatch(detection, c.storedFaces)
         IN IF ~IsAccepted(match) THEN [kind |-> "rejected", match |-> match]
            ELSE IF match[1].employeeId \notin c.employees
                 THEN [kind |-> "nometadata", match |-> match]
            ELSE LET employee == match[1].employeeId
                     confidence == Confidence(match[1].distance)
                 IN [kind |-> IF employee \in c.markedToday THEN "marked"
                                                           ELSE "insert",
                     match |-> match,
                     employee |-> employee, confidence |-> confidence]

\* The row markAttendance sends (lines 209-221).
NewRow(employee, confidence, now) ==
    [employee_id |-> employee, date |-> now.day, tod |-> now.tod,
     confidence_score |-> confidence, status |-> StatusOf(now.tod)]

Inserting(i) == starts[i].pc = "inserting"

LogEntry(employee, date, outcome) ==
    [employee_id |-> employee, date |-> date, outcome |-> outcome]

\* detectFace resolves with `detection`: lines 153-202, up to the await of the insert (line 215)
\* when the attendance is to be marked, to the end otherwise.
Detected(i, detection, tod) ==
    /\ starts[i].pc = "detecting"
    /\ \E o \in {Outcome(starts[i], detection, processLockRef)} :
          /\ o.kind = "insert" => BagSize(insertLog, DOMAIN insertLog) < MaxInserts
          /\ faceDetected' = St(faceDetected, o.kind # "noface")
          /\ lastMatch' =
                IF o.kind \in {"noface", "rejected"} THEN St(lastMatch, <<>>)
                ELSE IF o.kind \in {"marked", "insert"}
                     THEN St(lastMatch, << [employee |-> o.employee,
                                            confidence |-> o.confidence] >>)
                ELSE lastMatch
          /\ processLockRef' = (processLockRef \/ o.kind \notin {"noface", "skipped"})
          /\ timers' = IF o.kind \in {"rejected", "nometadata", "marked"}
                       THEN timers + 1 ELSE timers
          /\ IF o.kind = "insert"
             THEN /\ isProcessing' = St(isProcessing, TRUE)
                  /\ starts' = [starts EXCEPT
                                  ![i].pc = "inserting",
                                  ![i].attempt = o.kind,
                                  ![i].pending = << NewRow(o.employee, o.confidence,
                                                           [day |-> clockDay,
                                                            tod |-> tod]) >>]
                  /\ insertLog' = BagAdd(insertLog, LogEntry(o.employee, clockDay,
                                                              "pending"))
                  /\ UNCHANGED animationRef
             ELSE /\ starts' = [starts EXCEPT ![i].pc = "scheduled",
                                               ![i].attempt = o.kind]
                  /\ animationRef' = i
                  /\ UNCHANGED <<isProcessing, insertLog>>
    /\ UNCHANGED <<dbVars, initPc, initToday, isModelLoading, isCameraActive,
                   recentAttendance, markedToday, storedFaces, employees,
                   videoRef, streamRef, unmounted, clicksLeft>>
    /\ UNCHANGED regVars
    /\ UNCHANGED libVars

\* detectFace finds what the camera shows; new Date() (line 209) shows an instant
\* of the current day.
DetectResume(i) == \E detection \in Scenes, tod \in TimesOfDay : Detected(i, detection, tod)

\* The history's entry of the insert loop i awaits, and the history once it ended.
PendingEntry(i) ==
    LogEntry(starts[i].pending[1].employee_id, starts[i].pending[1].date, "pending")

LogAfter(i, outcome) ==
    BagAdd(BagRemove(insertLog, PendingEntry(i)),
           [PendingEntry(i) EXCEPT !.outcome = outcome])

\* line 225
MarkedAfter(prev, employee) == prev \cup {employee}

\* lines 226-229; the entry's time is the row's and is left to the table.
RecentAfter(prev, row) ==
    << [employee |-> row.employee_id, confidence |-> row.confidence_score] >>
    \o SubSeq(prev, 1, IF Len(prev) < RECENT_KEPT THEN Len(prev) ELSE RECENT_KEPT)

\* What follows markAttendance in detectAndMatch: lines 193-196 and 202.
AfterMark(i) ==
    /\ timers' = timers + 1
    /\ animationRef' = i
    /\ starts' = [starts EXCEPT ![i].pc = "scheduled", ![i].pending = <<>>]

\* The insert succeeds: the row is stored, lines 223-234 and 243 run.
InsertOk(i) ==
    /\ Inserting(i)
    /\ LET row == starts[i].pending[1]
       IN /\ attendanceTable' = BagAdd(attendanceTable, row)
          /\ markedToday' = St(markedToday, MarkedAfter(markedToday, row.employee_id))
          /\ recentAttendance' = St(recentAttendance,
                                    RecentAfter(recentAttendance, row))
    /\ insertLog' = LogAfter(i, "ok")
    /\ toast' = "Attendance Marked!"
    /\ isProcessing' = St(isProcessing, FALSE)
    /\ AfterMark(i)
    /\ UNCHANGED <<employeesTable, faceEncodings, clockDay, liveStreams,
                   modelsLoaded, initPc, initToday, isModelLoading,
                   isCameraActive, faceDetected, lastMatch, storedFaces,
                   employees, videoRef, streamRef, processLockRef, unmounted,
                   clicksLeft>>
    /\ UNCHANGED regVars
    /\ UNCHANGED libVars

InsertErrorMarking(i) ==
    /\ Inserting(i)
    /\ markedToday' = St(markedToday,
                         MarkedAfter(markedToday, starts[i].pending[1].employee_id))
    /\ insertLog' = LogAfter(i, "error")
    /\ toast' = "Error"
    /\ isProcessing' = St(isProcessing, FALSE)
    /\ AfterMark(i)
    /\ UNCHANGED <<employeesTable, attendanceTable, faceEncodings, clockDay,
                   liveStreams, modelsLoaded, initPc, initToday, isModelLoading,
                   isCameraActive, faceDetected, lastMatch, recentAttendance,
                   storedFaces, employees, videoRef, streamRef, processLockRef,
                   unmounted, clicksLeft>>
    /\ UNCHANGED regVars
    /\ UNCHANGED libVars

\* The insert fails: lines 223 and 235-243 run.
InsertError(i) ==
    /\ Inserting(i)
    /\ insertLog' = LogAfter(i, "error")
    /\ toast' = "Error"
    /\ isProcessing' = St(isProcessing, FALSE)
    /\ AfterMark(i)
    /\ UNCHANGED <<employeesTable, attendanceTable, faceEncodings, clockDay,
                   liveStreams, modelsLoaded, initPc, initToday, isModelLoading,
                   isCameraActive, faceDetected, lastMatch, recentAttendance,
                   markedToday, storedFaces, employees, videoRef, streamRef,
                   processLockRef, unmounted, clicksLeft>>
    /\ UNCHANGED regVars
    /\ UNCHANGED libVars

\* The flag is cleared without waiting for the timeout of line 193.
UnlockAtOnce ==
    /\ processLockRef
    /\ processLockRef' = FALSE
    /\ UNCHANGED <<dbVars, initPc, initToday, isModelLoading, isCameraActive,
                   faceDetected, isProcessing, lastMatch, recentAttendance,
                   markedToday, storedFaces, employees, videoRef, streamRef,
                   animationRef, starts, timers, unmounted, clicksLeft, insertLog>>
    /\ UNCHANGED regVars
    /\ UNCHANGED libVars

\* The timeout fires and leaves the flag as it is.
UnlockTimerLost ==
    /\ timers > 0
    /\ timers' = timers - 1
    /\ UNCHANGED <<dbVars, initPc, initToday, isModelLoading, isCameraActive,
                   faceDetected, isProcessing, lastMatch, recentAttendance,
                   markedToday, storedFaces, employees, videoRef, streamRef,
                   animationRef, processLockRef, starts, unmounted, clicksLeft,
                   insertLog>>
    /\ UNCHANGED regVars
    /\ UNCHANGED libVars

\* The timeout of line 193 fires.
UnlockTimer ==
    /\ timers > 0
    /\ timers' = timers - 1
    /\ processLockRef' = FALSE
    /\ UNCHANGED <<dbVars, initPc, initToday, isModelLoading, isCameraActive,
                   faceDetected, isProcessing, lastMatch, recentAttendance,
                   markedToday, storedFaces, employees, videoRef, streamRef,
                   animationRef, starts, unmounted, clicksLeft, insertLog>>
    /\ UNCHANGED regVars
    /\ UNCHANGED libVars

Next ==
    \/ NextDay
    \/ InitLoadModels
    \/ InitLoadEncodings
    \/ InitLoadEmployees
    \/ InitLoadAttendance
    \/ \E i \in StartIds : StartCameraClick(i)
    \/ \E i \in StartIds : StartCameraResolve(i)
    \/ \E i \in StartIds : StartCameraReject(i)
    \/ StopCamera
    \/ Teardown
    \/ \E i \in StartIds : FrameTick(i)
    \/ \E i \in StartIds : FrameTickNotReady(i)
    \/ \E i \in StartIds : DetectResume(i)
    \/ \E i \in StartIds : InsertOk(i)
    \/ \E i \in StartIds : InsertError(i)
    \/ UnlockTimer

Spec == Init /\ [][Next]_vars

(***************************************************************************)
(* The recognition page under the scheduling the browser guarantees: a     *)
(* requested frame tick runs, an insert is answered, the timeout fires;    *)
(* and under a camera that keeps showing V + noise at distance 0.1 while   *)
(* the loop looks with the gate open.                                      *)
(***************************************************************************)
NearFrame(i) ==
    /\ ~processLockRef
    /\ \E tod \in TimesOfDay : Detected(i, <<1, 0>>, tod)

Fairness ==
    /\ \A i \in StartIds : WF_vars(FrameTick(i))
    /\ \A i \in StartIds : WF_vars(DetectResume(i))
    /\ \A i \in StartIds : SF_vars(NearFrame(i))
    /\ \A i \in StartIds : WF_vars(InsertOk(i) \/ InsertError(i))
    /\ WF_vars(UnlockTimer)

FairSpec == Init /\ [][Next]_vars /\ Fairness

(***************************************************************************)
(* FaceRegistration.tsx.  The page declares isModelLoading, isProcessing,  *)
(* isCameraActive, faceDetected, videoRef, canvasRef, streamRef and        *)
(* animationRef as LiveAttendance does; one page is mounted at a time, so  *)
(* these variables are the mounted page's.                                 *)
(***************************************************************************)
REQUIRED_CAPTURES == 5

\* captureFrame calls that may await detectFace at the same time.
MaxInFlight == 2

Names == {"", "Ann"}

Keys == {"", "K1", "K2"}

Departments == {"", "IT"}

\* What the enrollee's face yields, frame after frame.
Poses == << <<20, 0>>, <<21, 0>>, <<20, 1>>, <<19, 0>>, <<20, -1>> >>

Pose(n) == Poses[((n - 1) % Len(Poses)) + 1]

\* line 178: canvas.toDataURL of the frame drawn at line 177
ImageOf(frame) == [jpeg |-> frame]

\* Only the first embedding is converted.
ArrayFromFirst(descriptors) ==
    IF descriptors = <<>> THEN <<>> ELSE << Head(descriptors) >>

\* indexedDb.ts line 40: descriptors.map(d => Array.from(d))
RECURSIVE ArrayFromEach(_)
ArrayFromEach(descriptors) ==
    IF descriptors = <<>> THEN <<>>
    ELSE << [k \in 1..Len(Head(descriptors)) |-> Head(descriptors)[k]] >>
         \o ArrayFromEach(Tail(descriptors))

\* crypto.randomUUID() (indexedDb.ts line 35): a key the store does not hold.
NewEncodingId == CHOOSE n \in 1..(Cardinality(faceEncodings) + 1) :
                    \A r \in faceEncodings : r.id # n

\* gen_random_uuid() (migration line 6): an id the table does not hold.
Uuids == {"E1", "E2", "E3", "E4"}

NewEmployeeId == CHOOSE id \in Uuids : \A r \in employeesTable : r.id # id

KeyAllowedWithoutUnique(key) == key # ""

\* employee_id TEXT UNIQUE NOT NULL (migration line 8)
KeyAllowed(key) == key # "" /\ \A r \in employeesTable : r.employee_id # key

\* The row an insert into public.employees stores (is_active defaults to true).
EmployeeRow(id, key) == [id |-> id, employee_id |-> key, is_active |-> TRUE]

InitEnroll ==
    /\ employeesTable = {EmployeeRow("E1", "K1")}
    /\ attendanceTable = EmptyBag
    /\ faceEncodings = {[id |-> 1, employeeId |-> "E1", descriptors |-> E1Descriptors]}
    /\ clockDay = 1
    /\ liveStreams = {}
    /\ toast = ""
    /\ modelsLoaded = FALSE
    /\ initPc = "models"
    /\ initToday = 0
    /\ isModelLoading = TRUE
    /\ isCameraActive = FALSE
    /\ faceDetected = FALSE
    /\ isProcessing = FALSE
    /\ lastMatch = <<>>
    /\ recentAttendance = <<>>
    /\ markedToday = {}
    /\ storedFaces = <<>>
    /\ employees = {}
    /\ videoRef \in {"null", "el"}
    /\ streamRef = 0
    /\ animationRef = 0
    /\ processLockRef = FALSE
    /\ starts = [i \in StartIds |-> IdleStart]
    /\ timers = 0
    /\ unmounted = FALSE
    /\ clicksLeft = 1
    /\ insertLog = EmptyBag
    /\ InitReg
    /\ InitLib

\* Another administrator's page registers an employee under `key`.
OtherClientInsert(key) ==
    /\ KeyAllowed(key)
    /\ employeesTable' = employeesTable \cup {EmployeeRow(NewEmployeeId, key)}
    /\ UNCHANGED <<faceEncodings, liveStreams, toast, modelsLoaded, isModelLoading,
                   isCameraActive, faceDetected, isProcessing, videoRef, streamRef,
                   animationRef, starts, unmounted, clicksLeft>>
    /\ UNCHANGED <<recVars, regVars>>
    /\ UNCHANGED libVars

\* The effect of lines 60-70: loadFaceApiModels resolves or rejects.
RegLoadModels ==
    /\ initPc = "models"
    /\ \/ /\ modelsLoaded' = TRUE
          /\ isModelLoading' = St(isModelLoading, FALSE)
          /\ initPc' = "done"
          /\ UNCHANGED toast
       \/ /\ toast' = "Error loading models"
          /\ initPc' = "failed"
          /\ UNCHANGED <<modelsLoaded, isModelLoading>>
    /\ UNCHANGED <<employeesTable, faceEncodings, liveStreams, isCameraActive,
                   faceDetected, isProcessing, videoRef, streamRef, animationRef,
                   starts, unmounted, clicksLeft>>
    /\ UNCHANGED <<attendanceTable, clockDay, initToday, lastMatch,
                   recentAttendance, markedToday, storedFaces, employees,
                   processLockRef, timers, insertLog, regVars>>
    /\ UNCHANGED libVars

(***************************************************************************)
(* FaceRegistration.startCamera (lines 77-109), stopCamera (111-121) and   *)
(* detectFaces (123-163), cut at their awaits.                             *)
(***************************************************************************)
\* The click on 'Start Camera' (line 317).
RegStartCameraClick(i) ==
    /\ ~unmounted
    /\ ~isModelLoading
    /\ ~isCameraActive
    /\ clicksLeft > 0
    /\ clicksLeft' = clicksLeft - 1
    /\ starts[i].pc = "idle"
    /\ \A j \in StartIds : j < i => starts[j].pc # "idle"
    /\ starts' = [starts EXCEPT ![i].pc = "acquiring"]
    /\ UNCHANGED <<employeesTable, faceEncodings, liveStreams, toast, modelsLoaded,
                   isModelLoading, isCameraActive, faceDetected, isProcessing,
                   videoRef, streamRef, animationRef, unmounted>>
    /\ UNCHANGED <<recVars, regVars>>
    /\ UNCHANGED libVars

\* getUserMedia resolves with stream i (lines 79-93).
RegStartCameraResolve(i) ==
    /\ starts[i].pc = "acquiring"
    /\ liveStreams' = liveStreams \cup {i}
    /\ IF videoRef = "el"
       THEN /\ streamRef' = i
            /\ starts' = [starts EXCEPT ![i].pc = "metadata"]
       ELSE /\ starts' = [starts EXCEPT ![i].pc = "returned"]
            /\ UNCHANGED streamRef
    /\ UNCHANGED <<employeesTable, faceEncodings, toast, modelsLoaded,
                   isModelLoading, isCameraActive, faceDetected, isProcessing,
                   videoRef, animationRef, unmounted, clicksLeft>>
    /\ UNCHANGED <<recVars, regVars>>
    /\ UNCHANGED libVars

\* lines 101-108
RegStartCameraFailed(i) ==
    /\ starts' = [starts EXCEPT ![i].pc = "rejected"]
    /\ toast' = "Camera access denied"

\* getUserMedia rejects.
RegStartCameraReject(i) ==
    /\ starts[i].pc = "acquiring"
    /\ RegStartCameraFailed(i)
    /\ UNCHANGED <<employeesTable, faceEncodings, liveStreams, modelsLoaded,
                   isModelLoading, isCameraActive, faceDetected, isProcessing,
                   videoRef, streamRef, animationRef, unmounted, clicksLeft>>
    /\ UNCHANGED <<recVars, regVars>>
    /\ UNCHANGED libVars

\* The promise of lines 89-93 settles: loadedmetadata or the timeout resolve
\* it, the video's error rejects it.
RegMetadata(i) ==
    /\ starts[i].pc = "metadata"
    /\ \/ /\ starts' = [starts EXCEPT ![i].pc = "playing"]
          /\ UNCHANGED toast
       \/ RegStartCameraFailed(i)
    /\ UNCHANGED <<employeesTable, faceEncodings, liveStreams, modelsLoaded,
                   isModelLoading, isCameraActive, faceDetected, isProcessing,
                   videoRef, streamRef, animationRef, unmounted, clicksLeft>>
    /\ UNCHANGED <<recVars, regVars>>
    /\ UNCHANGED libVars

\* video.play() settles (line 96); resolved, lines 98-99 run detectFaces up to
\* its first await or its first requestAnimationFrame.
RegPlay(i) ==
    /\ starts[i].pc = "playing"
    /\ \/ /\ isCameraActive' = St(isCameraActive, TRUE)
          /\ \E ready \in BOOLEAN :
                /\ starts' = [starts EXCEPT ![i].pc =
                                 IF videoRef = "null" THEN "returned"
                                 ELSE IF ready THEN "detecting" ELSE "scheduled"]
                /\ animationRef' = IF videoRef = "el" /\ ~ready THEN i
                                   ELSE animationRef
          /\ UNCHANGED toast
       \/ /\ RegStartCameraFailed(i)
          /\ UNCHANGED <<isCameraActive, animationRef>>
    /\ UNCHANGED <<employeesTable, faceEncodings, liveStreams, modelsLoaded,
                   isModelLoading, faceDetected, isProcessing, videoRef, streamRef,
                   unmounted, clicksLeft>>
    /\ UNCHANGED <<recVars, regVars>>
    /\ UNCHANGED libVars

\* The body of stopCamera (lines 111-121).
RegStopCameraBody ==
    /\ liveStreams' = IF streamRef # 0 THEN liveStreams \ {streamRef} ELSE liveStreams
    /\ streamRef' = 0
    /\ starts' = IF animationRef # 0 /\ starts[animationRef].pc = "scheduled"
                 THEN [starts EXCEPT ![animationRef].pc = "cancelled"]
                 ELSE starts
    /\ isCameraActive' = St(isCameraActive, FALSE)
    /\ faceDetected' = St(faceDetected, FALSE)
    \* the next render leaves the branch of lines 323-351: the elements detach
    /\ videoRef' = "null"

\* The 'Stop' button (line 379), rendered while the camera is active.
RegStopCamera ==
    /\ ~unmounted
    /\ isCameraActive
    /\ RegStopCameraBody
    /\ UNCHANGED <<employeesTable, faceEncodings, toast, modelsLoaded,
                   isModelLoading, isProcessing, animationRef, unmounted, clicksLeft>>
    /\ UNCHANGED <<recVars, regVars>>
    /\ UNCHANGED libVars

\* The effect's cleanup (lines 72-74): the page is left.
RegTeardown ==
    /\ ~unmounted
    /\ RegStopCameraBody
    /\ unmounted' = TRUE
    /\ UNCHANGED <<employeesTable, faceEncodings, toast, modelsLoaded,
                   isModelLoading, isProcessing, animationRef, clicksLeft>>
    /\ UNCHANGED <<recVars, regVars>>
    /\ UNCHANGED libVars

\* A scheduled detectFaces runs lines 124-138.
DetectFacesTick(i) ==
    /\ starts[i].pc = "scheduled"
    /\ starts' = [starts EXCEPT ![i].pc = IF videoRef = "null" THEN "returned"
                                           ELSE "detecting"]
    /\ UNCHANGED <<employeesTable, faceEncodings, liveStreams, toast, modelsLoaded,
                   isModelLoading, isCameraActive, faceDetected, isProcessing,
                   videoRef, streamRef, animationRef, unmounted, clicksLeft>>
    /\ UNCHANGED <<recVars, regVars>>
    /\ UNCHANGED libVars

\* A scheduled detectFaces finds the video not at readyState 4 (lines 130-133).
DetectFacesNotReady(i) ==
    /\ starts[i].pc = "scheduled"
    /\ videoRef = "el"
    /\ animationRef' = i
    /\ UNCHANGED <<employeesTable, faceEncodings, liveStreams, toast, modelsLoaded,
                   isModelLoading, isCameraActive, faceDetected, isProcessing,
                   videoRef, streamRef, starts, unmounted, clicksLeft>>
    /\ UNCHANGED <<recVars, regVars>>
    /\ UNCHANGED libVars

\* detectFace resolves in detectFaces (lines 138-162).
DetectFacesResume(i) ==
    /\ starts[i].pc = "detecting"
    /\ \E detection \in BOOLEAN : faceDetected' = St(faceDetected, detection)
    /\ animationRef' = i
    /\ starts' = [starts EXCEPT ![i].pc = "scheduled"]
    /\ UNCHANGED <<employeesTable, faceEncodings, liveStreams, toast, modelsLoaded,
                   isModelLoading, isCameraActive, isProcessing, videoRef,
                   streamRef, unmounted, clicksLeft>>
    /\ UNCHANGED <<recVars, regVars>>
    /\ UNCHANGED libVars

(***************************************************************************)
(* FaceRegistration.captureFrame (lines 165-195) and resetCaptures         *)
(* (lines 275-282).                                                        *)
(***************************************************************************)
\* The click on 'Capture' (line 368), enabled as line 369 says; lines 166-168.
CaptureFrameClick ==
    /\ ~unmounted
    /\ faceDetected
    /\ Len(capturedDescriptors) < REQUIRED_CAPTURES
    /\ videoRef = "el"
    /\ captures < MaxInFlight
    /\ captures' = captures + 1
    /\ UNCHANGED <<employeesTable, faceEncodings, liveStreams, toast, modelsLoaded,
                   isModelLoading, isCameraActive, faceDetected, isProcessing,
                   videoRef, streamRef, animationRef, starts, unmounted, clicksLeft>>
    /\ UNCHANGED <<recVars, capturedDescriptors, capturedImages, formData, submits,
                   navigated>>
    /\ UNCHANGED libVars

\* detectFace resolves in a captureFrame (lines 170-194).  With a detection and
\* the video gone, line 173 throws.  The toast is its title less the numbers
\* of line 185.
CaptureFrameResume ==
    /\ captures > 0
    /\ captures' = captures - 1
    /\ \E detection \in BOOLEAN :
          IF ~detection
          THEN /\ toast' = "No face detected"
               /\ UNCHANGED <<capturedDescriptors, capturedImages>>
          ELSE IF videoRef = "null"
          THEN UNCHANGED <<toast, capturedDescriptors, capturedImages>>
          ELSE LET frame == Pose(Len(capturedDescriptors) + 1)
               IN /\ capturedImages' =
                        St(capturedImages, Append(capturedImages, ImageOf(frame)))
                  /\ capturedDescriptors' =
                        St(capturedDescriptors, Append(capturedDescriptors, frame))
                  /\ toast' = "Captured"
    /\ UNCHANGED <<employeesTable, faceEncodings, liveStreams, modelsLoaded,
                   isModelLoading, isCameraActive, faceDetected, isProcessing,
                   videoRef, streamRef, animationRef, starts, unmounted, clicksLeft>>
    /\ UNCHANGED <<recVars, formData, submits, navigated>>
    /\ UNCHANGED libVars

\* The form is emptied as well.
ResetCapturesClearingForm ==
    /\ ~unmounted
    /\ Len(capturedDescriptors) > 0
    /\ capturedDescriptors' = <<>>
    /\ capturedImages' = <<>>
    /\ formData' = [name |-> "", employeeId |-> "", department |-> ""]
    /\ toast' = "Captures reset"
    /\ UNCHANGED <<employeesTable, faceEncodings, liveStreams, modelsLoaded,
                   isModelLoading, isCameraActive, faceDetected, isProcessing,
                   videoRef, streamRef, animationRef, starts, unmounted, clicksLeft>>
    /\ UNCHANGED <<recVars, captures, submits, navigated>>
    /\ UNCHANGED libVars

\* The click on 'Reset' (line 375).
ResetCaptures ==
    /\ ~unmounted
    /\ Len(capturedDescriptors) > 0
    /\ capturedDescriptors' = <<>>
    /\ capturedImages' = <<>>
    /\ toast' = "Captures reset"
    /\ UNCHANGED <<employeesTable, faceEncodings, liveStreams, modelsLoaded,
                   isModelLoading, isCameraActive, faceDetected, isProcessing,
                   videoRef, streamRef, animationRef, starts, unmounted, clicksLeft>>
    /\ UNCHANGED <<recVars, formData, captures, submits, navigated>>
    /\ UNCHANGED libVars

\* An input of the form changes (lines 432, 447, 458).
SetFormData ==
    /\ ~unmounted
    /\ \/ \E name \in Names : formData' = [formData EXCEPT !.name = name]
       \/ \E key \in Keys : formData' = [formData EXCEPT !.employeeId = key]
       \/ \E department \in Departments :
             formData' = [formData EXCEPT !.department = department]
    /\ UNCHANGED <<employeesTable, faceEncodings, liveStreams, toast, modelsLoaded,
                   isModelLoading, isCameraActive, faceDetected, isProcessing,
                   videoRef, streamRef, animationRef, starts, unmounted, clicksLeft>>
    /\ UNCHANGED <<recVars, capturedDescriptors, capturedImages, captures, submits,
                   navigated>>
    /\ UNCHANGED libVars

(***************************************************************************)
(* FaceRegistration.handleSubmit (lines 197-273), cut at its awaits.       *)
(***************************************************************************)
EnoughCapturesOffByOne(descriptors) == Len(descriptors) >= REQUIRED_CAPTURES - 1

\* line 200
EnoughCaptures(descriptors) == Len(descriptors) >= REQUIRED_CAPTURES

\* The department is not looked at.
MissingNameOrKey(data) == data.name = "" \/ data.employeeId = ""

\* line 209
MissingInformation(data) ==
    data.name = "" \/ data.employeeId = "" \/ data.department = ""

IsProcessingAtEndKeptOnFailure(result) == result # "ok"

\* lines 234 and 271: every path past line 218 ends with setIsProcessing(false)
IsProcessingAtEnd(result) == FALSE

\* The handler returns: its result is kept as history.
Returned(result) == [IdleSubmit EXCEPT !.result = result]

\* The submit event of the form (line 423) runs lines 198-226.  While
\* isProcessing the submit button is disabled (line 499), so no second event
\* arrives before the handler has ended; the capture count and the fields are
\* the handler's own tests.
HandleSubmit ==
    /\ ~unmounted
    /\ ~isProcessing
    /\ IF ~EnoughCaptures(capturedDescriptors)
       THEN /\ toast' = "Insufficient captures"
            /\ submits' = Returned("insufficient")
            /\ UNCHANGED isProcessing
       ELSE IF MissingInformation(formData)
       THEN /\ toast' = "Missing information"
            /\ submits' = Returned("missing")
            /\ UNCHANGED isProcessing
       ELSE /\ isProcessing' = TRUE
            /\ submits' = [pc |-> "checking", formData |-> formData,
                           capturedDescriptors |-> capturedDescriptors,
                           employee |-> "", result |-> "none"]
            /\ UNCHANGED toast
    /\ UNCHANGED <<employeesTable, faceEncodings, liveStreams, modelsLoaded,
                   isModelLoading, isCameraActive, faceDetected, videoRef,
                   streamRef, animationRef, starts, unmounted, clicksLeft>>
    /\ UNCHANGED <<recVars, capturedDescriptors, capturedImages, formData, captures,
                   navigated>>
    /\ UNCHANGED libVars

\* The existence query answers (lines 222-236): `existing` is the row when the
\* query was answered and the key is taken, null otherwise.
SubmitChecked ==
    /\ submits.pc = "checking"
    /\ \E answered \in BOOLEAN :
          LET existing == answered /\ \E r \in employeesTable :
                                         r.employee_id = submits.formData.employeeId
          IN IF existing
             THEN /\ toast' = "Employee ID exists"
                  /\ isProcessing' = St(isProcessing, IsProcessingAtEnd("exists"))
                  /\ submits' = Returned("exists")
             ELSE /\ submits' = [submits EXCEPT !.pc = "inserting"]
                  /\ UNCHANGED <<toast, isProcessing>>
    /\ UNCHANGED <<employeesTable, faceEncodings, liveStreams, modelsLoaded,
                   isModelLoading, isCameraActive, faceDetected, videoRef,
                   streamRef, animationRef, starts, unmounted, clicksLeft>>
    /\ UNCHANGED <<recVars, capturedDescriptors, capturedImages, formData, captures,
                   navigated>>
    /\ UNCHANGED libVars

\* lines 263-272
SubmitFailed(result) ==
    /\ toast' = "Registration failed"
    /\ isProcessing' = St(isProcessing, IsProcessingAtEnd(result))
    /\ submits' = Returned(result)

\* The insert answers (lines 239-254): the table stores the row and
\* saveFaceEncoding is called, or the table or the network refuses.
SubmitInserted ==
    /\ submits.pc = "inserting"
    /\ \/ /\ KeyAllowed(submits.formData.employeeId)
          /\ employeesTable' = employeesTable
                \cup {EmployeeRow(NewEmployeeId, submits.formData.employeeId)}
          /\ submits' = [submits EXCEPT !.pc = "saving", !.employee = NewEmployeeId]
          /\ UNCHANGED <<toast, isProcessing>>
       \/ /\ SubmitFailed("insertError")
          /\ UNCHANGED employeesTable
    /\ UNCHANGED <<faceEncodings, liveStreams, modelsLoaded, isModelLoading,
                   isCameraActive, faceDetected, videoRef, streamRef, animationRef,
                   starts, unmounted, clicksLeft>>
    /\ UNCHANGED <<recVars, capturedDescriptors, capturedImages, formData, captures,
                   navigated>>
    /\ UNCHANGED libVars

\* saveFaceEncoding resolves (indexedDb.ts lines 33-45; lines 256-262 and 271:
\* stopCamera, navigate, and the route change tears the page down) or rejects.
SubmitSaved ==
    /\ submits.pc = "saving"
    /\ \/ /\ faceEncodings' = faceEncodings \cup
                {[id |-> NewEncodingId, employeeId |-> submits.employee,
                  descriptors |-> ArrayFromEach(submits.capturedDescriptors)]}
          /\ toast' = "Registration successful!"
          /\ RegStopCameraBody
          /\ navigated' = TRUE
          /\ isProcessing' = St(isProcessing, IsProcessingAtEnd("ok"))
          /\ submits' = Returned("ok")
          /\ unmounted' = TRUE
       \/ /\ SubmitFailed("saveError")
          /\ UNCHANGED <<faceEncodings, liveStreams, streamRef, starts,
                         isCameraActive, faceDetected, videoRef, navigated,
                         unmounted>>
    /\ UNCHANGED <<employeesTable, modelsLoaded, isModelLoading, animationRef,
                   clicksLeft>>
    /\ UNCHANGED <<recVars, capturedDescriptors, capturedImages, formData, captures>>
    /\ UNCHANGED libVars

EnrollNext ==
    \/ \E key \in Keys : OtherClientInsert(key)
    \/ RegLoadModels
    \/ \E i \in StartIds : RegStartCameraClick(i)
    \/ \E i \in StartIds : RegStartCameraResolve(i)
    \/ \E i \in StartIds : RegStartCameraReject(i)
    \/ \E i \in StartIds : RegMetadata(i)
    \/ \E i \in StartIds : RegPlay(i)
    \/ RegStopCamera
    \/ RegTeardown
    \/ \E i \in StartIds : DetectFacesTick(i)
    \/ \E i \in StartIds : DetectFacesNotReady(i)
    \/ \E i \in StartIds : DetectFacesResume(i)
    \/ CaptureFrameClick
    \/ CaptureFrameResume
    \/ ResetCaptures
    \/ SetFormData
    \/ HandleSubmit
    \/ SubmitChecked
    \/ SubmitInserted
    \/ SubmitSaved

EnrollSpec == InitEnroll /\ [][EnrollNext]_vars

(***************************************************************************)
(* The library functions called on their own: faceApi.ts and, of           *)
(* LiveAttendance line 174, the confidence.  The pages are at rest.        *)
(***************************************************************************)
\* Longest descriptor list of an identity.
MaxStored == 2

\* Largest coordinate (in tenths) of the embeddings handed to euclideanDistance.
MaxCoord == 2

\* Largest squared distance (in hundredths) handed to the confidence: 2.0.
MaxSumSq == 400

Identities == {"X", "Y"}

\* <<3, 4>> is at distance 0.5 of <<0, 0>>.
Embeddings == {<<0, 0>>, <<1, 0>>, <<3, 4>>}

DescriptorLists == UNION {[1..n -> Embeddings] : n \in 0..MaxStored}

StoredFaces == [employeeId : Identities, descriptors : DescriptorLists]

\* The reference sets: at most as many records as identities, an identity
\* possibly more than once.
ReferenceSets == UNION {[1..n -> StoredFaces] : n \in 0..Cardinality(Identities)}

Vectors == [1..2 -> (-MaxCoord)..MaxCoord]

\* The arguments of the calls: the function's name, then its arguments.
Arguments ==
    ({"findBestMatch"} \X Embeddings \X ReferenceSets)
    \cup ({"euclideanDistance"} \X Vectors \X Vectors)
    \cup ({"confidence"} \X (0..MaxSumSq))

\* Both pages at rest, the stores as the enrollment page finds them.
AtRest ==
    /\ employeesTable = {EmployeeRow("E1", "K1")}
    /\ attendanceTable = EmptyBag
    /\ clockDay = 1
    /\ liveStreams = {}
    /\ toast = ""
    /\ modelsLoaded = FALSE
    /\ initPc = "models"
    /\ initToday = 0
    /\ isModelLoading = TRUE
    /\ isCameraActive = FALSE
    /\ faceDetected = FALSE
    /\ isProcessing = FALSE
    /\ lastMatch = <<>>
    /\ recentAttendance = <<>>
    /\ markedToday = {}
    /\ storedFaces = <<>>
    /\ employees = {}
    /\ videoRef = "null"
    /\ streamRef = 0
    /\ animationRef = 0
    /\ processLockRef = FALSE
    /\ starts = [i \in StartIds |-> IdleStart]
    /\ timers = 0
    /\ unmounted = FALSE
    /\ clicksLeft = 0
    /\ insertLog = EmptyBag
    /\ InitReg

InitPure ==
    /\ AtRest
    /\ faceEncodings = {[id |-> 1, employeeId |-> "E1", descriptors |-> E1Descriptors]}
    /\ call \in [op : {"none"}, args : Arguments, result : {<<>>}]
    /\ deletion = NoDeletion
    /\ lookedUp = NoLookup
    /\ loads = NoLoads

\* The call returns.
Returns(op, result) ==
    /\ call.op = "none"
    /\ call.args[1] = op
    /\ call' = [call EXCEPT !.op = op, !.result = result]
    /\ UNCHANGED <<dbVars, liveVars, regVars, deletion, lookedUp, loads>>

CallFindBestMatch == Returns("findBestMatch", findBestMatch(call.args[2], call.args[3]))

CallEuclideanDistance ==
    Returns("euclideanDistance", euclideanDistance(call.args[2], call.args[3]))

CallConfidence == Returns("confidence", Confidence(call.args[2]))

PureNext ==
    \/ CallFindBestMatch
    \/ CallEuclideanDistance
    \/ CallConfidence

PureSpec == InitPure /\ [][PureNext]_vars

(***************************************************************************)
(* What the claims speak of.                                               *)
(***************************************************************************)
CopiesOf(B, e) == IF e \in DOMAIN B THEN B[e] ELSE 0

\* Inserts of this visit for `employee` dated `date` that ended with `outcome`.
Logged(employee, date, outcome) == CopiesOf(insertLog, LogEntry(employee, date, outcome))

\* An insert for `employee` dated `date` was issued by this visit.
Issued(employee, date) ==
    \E outcome \in {"pending", "ok", "error"} : Logged(employee, date, outcome) > 0

RowsOf(employee, date) ==
    BagSize(attendanceTable,
            {r \in DOMAIN attendanceTable : r.employee_id = employee /\ r.date = date})

\* The table held a row of `employee` dated day 1 before the visit began.
HeldAtInit(employee) == RowsOf(employee, 1) > Logged(employee, 1, "ok")

\* getUserMedia answered the i-th startCamera with a stream.
Acquired(i) == starts[i].pc \notin {"idle", "acquiring", "rejected"}

(***************************************************************************)
(* C1.  The same identity, recognized in two or more iterations of the     *)
(* loop within one calendar day, yields exactly one check-in record: the   *)
(* visit never gets two successful inserts for one identity and one day.   *)
(***************************************************************************)
C1_OneCheckInPerDay ==
    \A e \in EmployeeIds, d \in Days : Logged(e, d, "ok") <= 1

(***************************************************************************)
(* C2.  If the table already holds a row dated today for an identity when  *)
(* the page initializes, the visit issues no check-in for it that day,     *)
(* whatever the order of the loads and the click, and whether or not the   *)
(* attendance query returns data.                                          *)
(***************************************************************************)
C2_NoCrossSessionDuplicate ==
    \A e \in EmployeeIds : HeldAtInit(e) => ~Issued(e, 1)

(***************************************************************************)
(* C3.  End to end: E1 is enrolled with five embeddings, is active and has *)
(* no row today; once getUserMedia has answered startCamera with a stream  *)
(* and the camera keeps showing an embedding at distance 0.1, a check-in   *)
(* of E1 eventually exists (unless the camera was stopped and released,    *)
(* the page torn down, or the store refused an insert).                    *)
(***************************************************************************)
CheckedIn(e) == \E d \in Days : Logged(e, d, "ok") > 0

LeftScenario ==
    \/ unmounted
    \/ \E i \in StartIds : Acquired(i) /\ i \notin liveStreams
    \/ \E e \in EmployeeIds, d \in Days : Logged(e, d, "error") > 0

C3_EndToEnd ==
    (Acquired(1) /\ "E1" \in employees /\ ~HeldAtInit("E1"))
        ~> (LeftScenario \/ CheckedIn("E1"))

(***************************************************************************)
(* C4.  A check-in is issued only below the threshold: when the Matcher    *)
(* runs on a frame whose best distance is 0.5 or more, the step shows no   *)
(* match and issues no insert.                                             *)
(***************************************************************************)
BestDistance(detection, stored) == findBestMatch(detection, stored)[1].distance

C4_NoCheckInAtOrAboveThreshold ==
    [][\A i \in StartIds :
          (starts[i].pc = "detecting" /\ ~processLockRef /\ starts'[i].pc # "detecting")
          => \A detection \in Scenes \ {NoFace}, tod \in TimesOfDay :
                ( /\ BestDistance(detection, starts[i].storedFaces) >= Dist(5)
                  /\ Detected(i, detection, tod) )
                => /\ lastMatch' = <<>>
                   /\ ~Inserting(i)'
                   /\ insertLog' = insertLog
                   /\ attendanceTable' = attendanceTable]_vars

\* A frame at distance 0.5 or 0.9 was just matched and rejected, nothing issued.
C4_Witness ==
    \E i \in StartIds : /\ starts[i].attempt = "rejected"
                        /\ lastMatch = <<>>
                        /\ insertLog = EmptyBag

(***************************************************************************)
(* C5.  A check-in at or before 09:00:00 local of its day has status       *)
(* 'present', one after it has status 'late'.                              *)
(***************************************************************************)
C5_StatusByCutoff ==
    \A r \in DOMAIN attendanceTable :
        r.status = IF r.tod <= WORK_START THEN "present" ELSE "late"

\* The visit stored a check-in made after the cutoff and one made before it.
C5_Witness ==
    /\ \E r \in DOMAIN attendanceTable : r.tod > WORK_START /\ r.status = "late"
    /\ \E r \in DOMAIN attendanceTable : r.tod < WORK_START /\ r.status = "present"

(***************************************************************************)
(* C6.  As claimed: before the cutoff 'present', at or after it 'late'.    *)
(* As amended: 08:59:59 and 09:00:00 give 'present', 09:00:01 gives 'late'.*)
(***************************************************************************)
C6_LateAtOrAfterCutoff ==
    \A r \in DOMAIN attendanceTable :
        r.status = IF r.tod < WORK_START THEN "present" ELSE "late"

C6_PresentUpToCutoff ==
    \A r \in DOMAIN attendanceTable :
        /\ r.tod = WORK_START - 1000 => r.status = "present"
        /\ r.tod = WORK_START => r.status = "present"
        /\ r.tod = WORK_START + 1000 => r.status = "late"

\* The visit stored a check-in made exactly at the cutoff.
C6_Witness ==
    \E r \in DOMAIN attendanceTable : r.tod = WORK_START /\ Logged(r.employee_id, r.date, "ok") > 0

(***************************************************************************)
(* C7.  When the insert of markAttendance fails, the 'already marked' set  *)
(* and the recent list are left as they were, and the loop still takes the *)
(* identity as unmarked: a later accepted frame issues the insert again.   *)
(***************************************************************************)
Errors == BagSize(insertLog, {x \in DOMAIN insertLog : x.outcome = "error"})

C7_FailedInsertLeavesUnmarked ==
    [][\A i \in StartIds :
          (Inserting(i) /\ Errors' > Errors)
          => /\ markedToday' = markedToday
             /\ recentAttendance' = recentAttendance
             /\ starts[i].pending[1].employee_id \notin starts'[i].markedToday]_vars

\* After a failed insert for E1 the loop has issued the insert for E1 again.
C7_Witness ==
    \E i \in StartIds, d \in Days :
        /\ Inserting(i)
        /\ starts[i].pending[1].employee_id = "E1"
        /\ Logged("E1", d, "error") > 0
        /\ "E1" \notin markedToday

(***************************************************************************)
(* C8.  A submit event with fewer than five captured embeddings is         *)
(* rejected whatever the form holds: the handler shows 'Insufficient       *)
(* captures' and returns with no query or insert issued, both stores and   *)
(* the captures as they were; and no submission is ever in flight with     *)
(* fewer than five embeddings.                                             *)
(***************************************************************************)
C8_TooFewCapturesRejected ==
    [][/\ (HandleSubmit /\ Len(capturedDescriptors) < REQUIRED_CAPTURES)
          => /\ toast' = "Insufficient captures"
             /\ submits'.pc = "idle"
             /\ employeesTable' = employeesTable
             /\ faceEncodings' = faceEncodings
             /\ capturedDescriptors' = capturedDescriptors
             /\ capturedImages' = capturedImages
       /\ submits'.pc # "idle"
          => Len(submits'.capturedDescriptors) >= REQUIRED_CAPTURES]_vars

\* A complete form was submitted with four captures and was rejected.
C8_Witness ==
    /\ submits.result = "insufficient"
    /\ toast = "Insufficient captures"
    /\ ~MissingInformation(formData)
    /\ Len(capturedDescriptors) = REQUIRED_CAPTURES - 1

(***************************************************************************)
(* C9.  The employees table never holds two rows with one employee_id,     *)
(* also when this page's submission and another client's both found the    *)
(* key free before either inserted.                                        *)
(***************************************************************************)
C9_OneRecordPerKey ==
    \A r1, r2 \in employeesTable : r1.employee_id = r2.employee_id => r1 = r2

\* The existence check found K2 free, the insert is in flight, and K2 has
\* been taken meanwhile.
C9_Witness ==
    /\ submits.pc = "inserting"
    /\ submits.formData.employeeId = "K2"
    /\ \E r \in employeesTable : r.employee_id = "K2"

(***************************************************************************)
(* C10.  A submission that fails (a field missing, the key taken, the      *)
(* insert or the reference store refusing) shows its error, leaves the     *)
(* captured embeddings and images as they were, and ends with isProcessing *)
(* false while the page is mounted.                                        *)
(***************************************************************************)
Failures == {"missing", "exists", "insertError", "saveError"}

EnrollmentFails ==
    /\ submits'.result \in Failures
    /\ \/ submits.pc # "idle"
       \/ HandleSubmit /\ EnoughCaptures(capturedDescriptors)

C10_FailureIsRecoverable ==
    [][EnrollmentFails
       => /\ toast' \in {"Missing information", "Employee ID exists",
                         "Registration failed"}
          /\ capturedDescriptors' = capturedDescriptors
          /\ capturedImages' = capturedImages
          /\ submits'.pc = "idle"
          /\ ~unmounted => ~isProcessing']_vars

\* A submission with the quota reached was refused for its key.
C10_Witness ==
    /\ submits.result = "exists"
    /\ toast = "Employee ID exists"
    /\ Len(capturedDescriptors) >= REQUIRED_CAPTURES
    /\ ~isProcessing
    /\ ~unmounted

\* The places <<i, j>> of the stored embeddings of a reference set.
StoredAt(refs) ==
    UNION {{<<i, j>> : j \in 1..Len(refs[i].descriptors)} : i \in 1..Len(refs)}

Matched == call.op = "findBestMatch"

DistanceAt(p) == euclideanDistance(call.args[2], call.args[3][p[1]].descriptors[p[2]])

(***************************************************************************)
(* C11.  Over a reference set with at least one stored embedding,          *)
(* findBestMatch returns a match whose distance is the least distance from *)
(* the live embedding to any stored embedding, and whose identity owns a   *)
(* stored embedding at that distance.                                      *)
(***************************************************************************)
C11_BestIsMinimum ==
    (Matched /\ StoredAt(call.args[3]) # {})
    => /\ call.result # <<>>
       /\ \A p \in StoredAt(call.args[3]) : call.result[1].distance <= DistanceAt(p)
       /\ \E p \in StoredAt(call.args[3]) :
             /\ call.args[3][p[1]].employeeId = call.result[1].employeeId
             /\ DistanceAt(p) = call.result[1].distance

\* The least distance is not 0 and is found in the second identity's list,
\* behind a farther embedding of the first identity.
C11_Witness ==
    /\ Matched
    /\ Len(call.args[3]) = 2
    /\ call.args[3][1].employeeId # call.args[3][2].employeeId
    /\ Len(call.args[3][1].descriptors) > 0
    /\ call.result # <<>>
    /\ call.result[1].employeeId = call.args[3][2].employeeId
    /\ call.result[1].distance > 0
    /\ DistanceAt(<<1, 1>>) > call.result[1].distance

(***************************************************************************)
(* C12.  findBestMatch returns null exactly when the reference set holds   *)
(* no stored embedding: no identity, or only identities with empty lists.  *)
(***************************************************************************)
C12_NullIffNothingStored ==
    Matched => (call.result = <<>> <=> StoredAt(call.args[3]) = {})

\* null over two identities with empty lists
C12_Witness ==
    /\ Matched
    /\ Len(call.args[3]) = 2
    /\ call.result = <<>>

StoresQuery(i) ==
    \E j \in 1..Len(call.args[3][i].descriptors) :
        call.args[3][i].descriptors[j] = call.args[2]

(***************************************************************************)
(* C13.  As claimed: every identity that stores the exact query embedding  *)
(* is the one returned, with distance 0.  As amended: the distance is 0    *)
(* and the identity returned is that of the first record, in list order,   *)
(* that stores the exact query embedding.                                  *)
(***************************************************************************)
C13_ExactIdentityReturned ==
    Matched
    => \A i \in 1..Len(call.args[3]) :
          StoresQuery(i)
          => /\ call.result # <<>>
             /\ call.result[1].distance = 0
             /\ call.result[1].employeeId = call.args[3][i].employeeId

\* C13, as amended: the first record storing the exact query embedding gives
\* the identity returned, at distance 0.
C13_FirstExactIdentityReturned ==
    Matched
    => \A i \in 1..Len(call.args[3]) :
          (StoresQuery(i) /\ \A k \in 1..(i - 1) : ~StoresQuery(k))
          => /\ call.result # <<>>
             /\ call.result[1].distance = 0
             /\ call.result[1].employeeId = call.args[3][i].employeeId

\* Two identities store the exact query embedding; the first one is returned.
C13_Witness ==
    /\ Matched
    /\ Len(call.args[3]) = 2
    /\ call.args[3][1].employeeId # call.args[3][2].employeeId
    /\ StoresQuery(1)
    /\ StoresQuery(2)
    /\ call.result[1].employeeId = call.args[3][1].employeeId
    /\ call.result[1].distance = 0

Measured == call.op = "euclideanDistance"

(***************************************************************************)
(* C14.  euclideanDistance(a, a) is exactly 0, for every embedding a.      *)
(***************************************************************************)
C14_DistanceToItselfIsZero ==
    (Measured /\ call.args[2] = call.args[3]) => call.result = 0

\* An embedding other than the origin was measured against itself.
C14_Witness ==
    /\ Measured
    /\ call.args[2] = call.args[3]
    /\ call.args[2] = <<MaxCoord, -1>>
    /\ call.result = 0

(***************************************************************************)
(* C15.  euclideanDistance(a, b) equals euclideanDistance(b, a), for all   *)
(* embeddings a and b of one length.                                       *)
(***************************************************************************)
C15_DistanceIsSymmetric ==
    Measured => call.result = euclideanDistance(call.args[3], call.args[2])

\* Two different embeddings were measured, at distance 0.5.
C15_Witness ==
    /\ Measured
    /\ call.args[2] = <<-1, 2>>
    /\ call.args[3] = <<2, -2>>
    /\ call.result = Dist(5)

Rated == call.op = "confidence"

(***************************************************************************)
(* C16.  The confidence c of a distance d is round((1 - d) * 100), that is *)
(* c - 1/2 <= 100 - 100 d < c + 1/2; it is 100 for d = 0, at most 0 for    *)
(* every d >= 1, and never grows with the distance.                        *)
(***************************************************************************)
C16_ConfidenceIsRounded ==
    Rated
    => LET s == call.args[2]
           c == call.result
       IN /\ 201 - 2 * c >= 0
          /\ 400 * s <= (201 - 2 * c) * (201 - 2 * c)
          /\ 199 - 2 * c < 0 \/ 400 * s > (199 - 2 * c) * (199 - 2 * c)
          /\ s = 0 => c = 100
          /\ s >= Dist(10) => c <= 0
          /\ s > 0 => Confidence(s - 1) >= c

\* Distance 2.0 was rated -100.
C16_Witness ==
    /\ Rated
    /\ call.args[2] = Dist(20)
    /\ call.result = -100

(***************************************************************************)
(* C17.  Every stream obtained from getUserMedia that is still live is the *)
(* one streamRef holds, so that stopCamera can release it, and no stream   *)
(* is live once the component is torn down.                                *)
(***************************************************************************)
C17_NoStreamLeftLive ==
    /\ \A stream \in liveStreams : streamRef = stream
    /\ unmounted => liveStreams = {}

\* Loop i was started, which set streamRef (line 109), and stopCamera has since
\* cleared it (line 126), while an iteration of the loop is suspended.
StoppedWhileSuspended(i) ==
    /\ streamRef = 0
    /\ starts[i].pc \in {"detecting", "inserting"}

(***************************************************************************)
(* C18.  Once stopCamera has run, a loop iteration that was awaiting       *)
(* detectFace or the attendance insert schedules no further frame tick,    *)
(* and one that was awaiting detectFace issues no attendance insert.       *)
(***************************************************************************)
C18_NothingNewAfterStop ==
    [][\A i \in StartIds :
          StoppedWhileSuspended(i)
          => /\ starts'[i].pc # "scheduled"
             /\ starts[i].pc = "detecting" => starts'[i].pc # "inserting"]_vars

(***************************************************************************)
(* The recognition page with two detection loops.  The page has loaded     *)
(* (lines 59-90 have run, no attendance row exists today) and its elements *)
(* are attached; 'Start Attendance' can be clicked again before the first  *)
(* getUserMedia has resolved, since the button stays until isCameraActive  *)
(* is set (line 110): both invocations of startCamera call detectAndMatch  *)
(* and both loops run, sharing processLockRef.                             *)
(***************************************************************************)
InitLoops ==
    /\ employeesTable = {[id |-> "E1", employee_id |-> "K1", is_active |-> TRUE],
                         [id |-> "E2", employee_id |-> "K2", is_active |-> FALSE]}
    /\ attendanceTable = EmptyBag
    /\ faceEncodings = {[id |-> 1, employeeId |-> "E1", descriptors |-> E1Descriptors],
                        [id |-> 2, employeeId |-> "E2", descriptors |-> E2Descriptors]}
    /\ clockDay = 1
    /\ liveStreams = {}
    /\ toast = ""
    /\ modelsLoaded = TRUE
    /\ initPc = "done"
    /\ initToday = clockDay
    /\ isModelLoading = FALSE
    /\ isCameraActive = FALSE
    /\ faceDetected = FALSE
    /\ isProcessing = FALSE
    /\ lastMatch = <<>>
    /\ recentAttendance = <<>>
    /\ markedToday = {}
    /\ storedFaces = MapFaces(InKeyOrder(faceEncodings))
    /\ employees \in {{}, {"E1"}}
    /\ videoRef = "el"
    /\ streamRef = 0
    /\ animationRef = 0
    /\ processLockRef = FALSE
    /\ starts = [i \in StartIds |-> IdleStart]
    /\ timers = 0
    /\ unmounted = FALSE
    /\ clicksLeft = Cardinality(StartIds)
    /\ insertLog = EmptyBag
    /\ InitReg
    /\ InitLib

LoopsNext ==
    \/ \E i \in StartIds : StartCameraClick(i)
    \/ \E i \in StartIds : StartCameraResolve(i)
    \/ \E i \in StartIds : StartCameraReject(i)
    \/ StopCamera
    \/ Teardown
    \/ \E i \in StartIds : FrameTick(i)
    \/ \E i \in StartIds : FrameTickNotReady(i)
    \/ \E i \in StartIds : DetectResume(i)
    \/ \E i \in StartIds : InsertOk(i)
    \/ \E i \in StartIds : InsertError(i)
    \/ UnlockTimer

LoopsSpec == InitLoops /\ [][LoopsNext]_vars

InFlight == {i \in StartIds : Inserting(i)}

(***************************************************************************)
(* C19.  At most one match attempt is in flight: the attendance inserts in *)
(* flight and the cooldowns pending number one while processLockRef is set *)
(* and none while it is clear; while it is set, an iteration that resumes  *)
(* from detectFace, in whichever loop, starts no match and issues no       *)
(* insert; and it is cleared only by the timeout, with no insert in flight.*)
(***************************************************************************)
C19_LockCoversAttempt ==
    Cardinality(InFlight) + timers = IF processLockRef THEN 1 ELSE 0

C19_LockedOut ==
    \A i \in StartIds :
        (processLockRef /\ starts[i].pc = "detecting" /\ starts'[i].pc # "detecting")
        => /\ starts'[i].attempt \in {"noface", "skipped"}
           /\ starts'[i].pc = "scheduled"
           /\ insertLog' = insertLog

C19_ClearedByCooldown ==
    (processLockRef /\ ~processLockRef')
    => /\ InFlight = {}
       /\ timers' = timers - 1

\* C19: the flag covers one attempt at a time, locks every other iteration
\* out, and is cleared by the cooldown only.
C19_OneAttemptInFlight ==
    /\ []C19_LockCoversAttempt
    /\ [][C19_LockedOut /\ C19_ClearedByCooldown]_vars

\* Both loops run: one awaits its attendance insert with the flag set, the
\* other has looked at a frame with a face in it and has skipped the match.
C19_Witness ==
    \E i, j \in StartIds :
        /\ i # j
        /\ processLockRef
        /\ Inserting(i)
        /\ starts[j].attempt = "skipped"
        /\ starts[j].pc = "scheduled"

(***************************************************************************)
(* indexedDb.ts on its own: the reference store under saveFaceEncoding and *)
(* deleteFaceEncoding, each cut at its awaits.  The store starts with up   *)
(* to MaxRecords records, each of either identity.                         *)
(***************************************************************************)
MaxRecords == 3     \* records in the store at the start
MaxSaves == 1       \* saveFaceEncoding calls

DescriptorsOf(employeeId) == IF employeeId = "E1" THEN E1Descriptors ELSE E2Descriptors

InitialStores ==
    UNION {{ {[id |-> k, employeeId |-> owner[k], descriptors |-> DescriptorsOf(owner[k])]
                : k \in 1..n} : owner \in [1..n -> EmployeeIds]} : n \in 0..MaxRecords}

InitStore ==
    /\ AtRest
    /\ faceEncodings \in InitialStores
    /\ InitLib

\* The records an index 'by-employee' holds under employeeId.
RecordsIn(store, employeeId) == {r \in store : r.employeeId = employeeId}

RecordsOf(employeeId) == RecordsIn(faceEncodings, employeeId)

\* Only the first record of the index, in place of line 60.
getFirstFromIndex(employeeId) ==
    IF RecordsOf(employeeId) = {} THEN <<>>
    ELSE <<InKeyOrder(RecordsOf(employeeId))[1]>>

\* db.getAllFromIndex('faceEncodings', 'by-employee', employeeId)
getAllFromIndex(employeeId) == InKeyOrder(RecordsOf(employeeId))

\* The least key the store holds, in place of line 35.
StoredEncodingId ==
    IF faceEncodings = {} THEN MaxRecords + deletion.saves + 1
    ELSE (CHOOSE r \in faceEncodings : \A q \in faceEncodings : r.id <= q.id).id

\* crypto.randomUUID() (line 35): a key never used before.
FreshEncodingId == MaxRecords + deletion.saves + 1

Deleting == deletion.pc \in {"opening", "deleting"}

\* saveFaceEncoding(employeeId, descriptors): the put of lines 37-42.
SaveFaceEncoding(employeeId) ==
    /\ deletion.saves < MaxSaves
    /\ faceEncodings' = {r \in faceEncodings : r.id # FreshEncodingId} \cup
          {[id |-> FreshEncodingId, employeeId |-> employeeId,
            descriptors |-> ArrayFromEach(DescriptorsOf(employeeId))]}
    /\ deletion' = [deletion EXCEPT
                      !.saves = @ + 1,
                      !.inserted = @ \/ (Deleting /\ employeeId = deletion.employeeId)]
    /\ UNCHANGED <<employeesTable, attendanceTable, clockDay, liveStreams, toast,
                   modelsLoaded, liveVars, regVars, call, lookedUp, loads>>

\* deleteFaceEncoding(employeeId) is called and awaits getDB (line 59).
DeleteFaceEncoding(employeeId) ==
    /\ ~Deleting
    /\ deletion' = [pc |-> "opening", employeeId |-> employeeId, encodings |-> <<>>,
                    found |-> 0, inserted |-> FALSE, saves |-> deletion.saves]
    /\ UNCHANGED <<dbVars, liveVars, regVars, call, lookedUp, loads>>

\* The call returns when the loop has nothing left (line 64).
AfterDelete(encodings) == IF encodings = <<>> THEN "done" ELSE "deleting"

\* getAllFromIndex answers (line 60).
DeleteListed ==
    /\ deletion.pc = "opening"
    /\ LET encodings == getAllFromIndex(deletion.employeeId)
       IN deletion' = [deletion EXCEPT !.pc = AfterDelete(encodings),
                                       !.encodings = encodings,
                                       !.found = Len(encodings)]
    /\ UNCHANGED <<dbVars, liveVars, regVars, call, lookedUp, loads>>

\* One turn of the loop: await db.delete('faceEncodings', encoding.id) (line 62).
DeleteOne ==
    /\ deletion.pc = "deleting"
    /\ faceEncodings' = {r \in faceEncodings : r.id # Head(deletion.encodings).id}
    /\ deletion' = [deletion EXCEPT !.pc = AfterDelete(Tail(deletion.encodings)),
                                    !.encodings = Tail(deletion.encodings)]
    /\ UNCHANGED <<employeesTable, attendanceTable, clockDay, liveStreams, toast,
                   modelsLoaded, liveVars, regVars, call, lookedUp, loads>>

\* A request of the call is refused by the database: the call rejects.
DeleteRejected ==
    /\ Deleting
    /\ deletion' = [deletion EXCEPT !.pc = "failed"]
    /\ UNCHANGED <<dbVars, liveVars, regVars, call, lookedUp, loads>>

\* getFaceEncodingByEmployee(employeeId) is called and awaits getDB (line 53).
GetFaceEncodingByEmployee(employeeId) ==
    /\ lookedUp.pc # "opening"
    /\ lookedUp' = [pc |-> "opening", employeeId |-> employeeId, result |-> <<>>]
    /\ UNCHANGED <<dbVars, liveVars, regVars, call, deletion, loads>>

\* An empty list makes the call reject, in place of line 55.
AnswerRejectingEmpty(encodings) ==
    IF encodings = <<>> THEN [pc |-> "rejected", result |-> <<>>]
    ELSE [pc |-> "resolved", result |-> <<encodings[1]>>]

\* return encodings[0] (line 55): undefined when the list is empty.
Answer(encodings) ==
    [pc |-> "resolved",
     result |-> IF encodings = <<>> THEN <<>> ELSE <<encodings[1]>>]

\* getAllFromIndex answers (line 54) and the call returns (line 55).
LookupAnswered ==
    /\ lookedUp.pc = "opening"
    /\ LET answer == Answer(getAllFromIndex(lookedUp.employeeId))
       IN lookedUp' = [lookedUp EXCEPT !.pc = answer.pc, !.result = answer.result]
    /\ UNCHANGED <<dbVars, liveVars, regVars, call, deletion, loads>>

StoreNext ==
    \/ \E employeeId \in EmployeeIds : SaveFaceEncoding(employeeId)
    \/ \E employeeId \in EmployeeIds : DeleteFaceEncoding(employeeId)
    \/ DeleteListed
    \/ DeleteOne
    \/ DeleteRejected
    \/ \E employeeId \in EmployeeIds : GetFaceEncodingByEmployee(employeeId)
    \/ LookupAnswered

StoreSpec == InitStore /\ [][StoreNext]_vars

\* A step of the deleteFaceEncoding call itself.
StepOfDelete == deletion' # deletion /\ deletion'.saves = deletion.saves

(***************************************************************************)
(* C20.  When deleteFaceEncoding(X) completes and no record of X was put   *)
(* while it ran, the store holds no record of X, however many it held; and *)
(* no step of the call changes the records of any other identity.          *)
(***************************************************************************)
C20_DeleteIsFullRemoval ==
    [][/\ StepOfDelete
          => (faceEncodings' \ RecordsIn(faceEncodings', deletion'.employeeId)
                = faceEncodings \ RecordsIn(faceEncodings, deletion'.employeeId))
       /\ (Deleting /\ deletion'.pc = "done" /\ ~deletion'.inserted)
          => RecordsIn(faceEncodings', deletion'.employeeId) = {}]_vars

\* The call found two records of its identity or more and has completed; the
\* record saveFaceEncoding put for the other identity is still there.
C20_Witness ==
    /\ deletion.pc = "done"
    /\ deletion.found >= 2
    /\ ~deletion.inserted
    /\ deletion.saves > 0
    /\ RecordsOf(deletion.employeeId) = {}
    /\ \E r \in faceEncodings : r.id = MaxRecords + 1

(***************************************************************************)
(* C21.  getFaceEncodingByEmployee for an identity the store holds no      *)
(* record of resolves with undefined, does not reject, and leaves the      *)
(* store as it was.                                                        *)
(***************************************************************************)
C21_LookupOfNothingIsEmpty ==
    [][(lookedUp.pc = "opening" /\ lookedUp' # lookedUp
          /\ RecordsOf(lookedUp.employeeId) = {})
       => /\ lookedUp'.pc = "resolved"
          /\ lookedUp'.result = <<>>
          /\ faceEncodings' = faceEncodings]_vars

\* A lookup of an identity without records has resolved with undefined, in a
\* store that holds records of the other identity.
C21_Witness ==
    /\ lookedUp.pc = "resolved"
    /\ lookedUp.result = <<>>
    /\ RecordsOf(lookedUp.employeeId) = {}
    /\ faceEncodings # {}
    /\ deletion.pc = "idle"
    /\ deletion.saves = 0

(***************************************************************************)
(* faceApi.ts on its own: loadFaceApiModels (lines 5-17) called by several *)
(* callers, cut at its await.  Both pages call it when they mount (part_001*)
(* line 62, FaceRegistration.tsx line 61), so that a call can begin before *)
(* an earlier one has returned.                                            *)
(***************************************************************************)
InitLoader ==
    /\ AtRest
    /\ faceEncodings = {}
    /\ InitLib

\* The call begins: line 6 returns when the flag is set; otherwise the three
\* loadFromUri of lines 10-14 are issued and awaited.
LoadFaceApiModels(c) ==
    /\ loads.pc[c] = "idle"
    /\ loads' = IF modelsLoaded
                THEN [loads EXCEPT !.pc[c] = "returned"]
                ELSE [loads EXCEPT !.pc[c] = "loading", !.fetched = @ + 1]
    /\ UNCHANGED <<dbVars, liveVars, regVars, call, deletion, lookedUp>>

\* Promise.all resolves: line 16.
LoadResolved(c) ==
    /\ loads.pc[c] = "loading"
    /\ modelsLoaded' = TRUE
    /\ loads' = [loads EXCEPT !.pc[c] = "returned"]
    /\ UNCHANGED <<employeesTable, attendanceTable, faceEncodings, clockDay,
                   liveStreams, toast, liveVars, regVars, call, deletion, lookedUp>>

\* Promise.all rejects: the call rejects and the flag stays clear.
LoadRejected(c) ==
    /\ loads.pc[c] = "loading"
    /\ loads' = [loads EXCEPT !.pc[c] = "failed", !.failed = @ + 1]
    /\ UNCHANGED <<dbVars, liveVars, regVars, call, deletion, lookedUp>>

LoaderNext ==
    \/ \E c \in Callers : LoadFaceApiModels(c)
    \/ \E c \in Callers : LoadResolved(c)
    \/ \E c \in Callers : LoadRejected(c)

LoaderSpec == InitLoader /\ [][LoaderNext]_vars

(***************************************************************************)
(* C22.  Over any sequence of calls of loadFaceApiModels, overlapping ones *)
(* included, the model resources are fetched once: at most one fetch that  *)
(* did not fail is ever issued.                                            *)
(***************************************************************************)
C22_LoadedOnce == loads.fetched - loads.failed <= 1

(***************************************************************************)
(* C24.  When getUserMedia resolves for a startCamera invoked on a mounted *)
(* page with the camera inactive, the page becomes active: isCameraActive  *)
(* is set, streamRef holds the stream and the detection loop is scheduled. *)
(***************************************************************************)
C24_StartReachesCapturing ==
    [][\A i \in StartIds :
          (starts[i].pc = "acquiring" /\ i \in liveStreams' /\ i \notin liveStreams
             /\ ~unmounted /\ ~isCameraActive)
          => /\ isCameraActive'
             /\ streamRef' = i
             /\ starts'[i].pc = "scheduled"]_vars

(***************************************************************************)
(* C25.  In every state of an enrollment session the captured embeddings   *)
(* number at most REQUIRED_CAPTURES.                                       *)
(***************************************************************************)
C25_CapturesWithinQuota == Len(capturedDescriptors) <= REQUIRED_CAPTURES

(***************************************************************************)
(* The enrollment page while capturing: the camera is active (lines 98-99  *)
(* have run) and captureFrame (lines 165-195) is called whatever the       *)
(* 'Capture' button's disabled attribute says about faceDetected, so that  *)
(* the test of line 166 is what decides.                                   *)
(***************************************************************************)
InitCapture ==
    /\ employeesTable = {EmployeeRow("E1", "K1")}
    /\ attendanceTable = EmptyBag
    /\ faceEncodings = {[id |-> 1, employeeId |-> "E1", descriptors |-> E1Descriptors]}
    /\ clockDay = 1
    /\ liveStreams = {1}
    /\ toast = ""
    /\ modelsLoaded = TRUE
    /\ initPc = "done"
    /\ initToday = 0
    /\ isModelLoading = FALSE
    /\ isCameraActive = TRUE
    /\ faceDetected = FALSE
    /\ isProcessing = FALSE
    /\ lastMatch = <<>>
    /\ recentAttendance = <<>>
    /\ markedToday = {}
    /\ storedFaces = <<>>
    /\ employees = {}
    /\ videoRef = "el"
    /\ streamRef = 1
    /\ animationRef = 1
    /\ processLockRef = FALSE
    /\ starts = [i \in StartIds |-> IF i = 1 THEN [IdleStart EXCEPT !.pc = "scheduled"]
                                   ELSE IdleStart]
    /\ timers = 0
    /\ unmounted = FALSE
    /\ clicksLeft = 0
    /\ insertLog = EmptyBag
    /\ InitReg
    /\ InitLib

\* Only the element is tested, in place of line 166.
ReturnsAtOnceIgnoringIndicator(video, detected) == video = "null"

\* line 166: if (!videoRef.current || !faceDetected) return
ReturnsAtOnce(video, detected) == video = "null" \/ ~detected

\* captureFrame is called: line 166, and line 168 up to its await.
CaptureFrame ==
    /\ ~unmounted
    /\ Len(capturedDescriptors) < REQUIRED_CAPTURES
    /\ captures < MaxInFlight
    /\ IF ReturnsAtOnce(videoRef, faceDetected)
       THEN /\ call' = [op |-> "captureFrame", result |-> "returned"]
            /\ UNCHANGED captures
       ELSE /\ call' = [op |-> "captureFrame", result |-> "awaiting"]
            /\ captures' = captures + 1
    /\ UNCHANGED <<employeesTable, faceEncodings, liveStreams, toast, modelsLoaded,
                   isModelLoading, isCameraActive, faceDetected, isProcessing,
                   videoRef, streamRef, animationRef, starts, unmounted, clicksLeft>>
    /\ UNCHANGED <<recVars, capturedDescriptors, capturedImages, formData, submits,
                   navigated>>
    /\ UNCHANGED <<deletion, lookedUp, loads>>

CaptureNext ==
    \/ \E i \in StartIds : DetectFacesTick(i)
    \/ \E i \in StartIds : DetectFacesNotReady(i)
    \/ \E i \in StartIds : DetectFacesResume(i)
    \/ CaptureFrame
    \/ CaptureFrameResume
    \/ ResetCaptures
    \/ RegStopCamera
    \/ RegTeardown

CaptureSpec == InitCapture /\ [][CaptureNext]_vars

\* captureFrame was called in this step; detectFace resolved in a captureFrame
\* in this step.
Attempted == call' # call

Resumed == captures' = captures - 1

\* The step appended nothing to the session and left the page capturing or not
\* as it was.
NothingCaptured ==
    /\ capturedDescriptors' = capturedDescriptors
    /\ capturedImages' = capturedImages
    /\ isCameraActive' = isCameraActive

(***************************************************************************)
(* C26.  As claimed: a capture attempt made while faceDetected is false,   *)
(* and one whose frame the extractor finds no face in, appends nothing,    *)
(* shows 'No face detected' and leaves the page capturing.                 *)
(***************************************************************************)
C26_NoFaceSignalled ==
    [][(\/ Attempted /\ ~faceDetected
        \/ Resumed /\ videoRef = "el" /\ ~unmounted
             /\ capturedDescriptors' = capturedDescriptors)
       => /\ NothingCaptured
          /\ toast' = "No face detected"]_vars

\* C26, as amended: an attempt made while faceDetected is false returns at line
\* 166 and changes nothing, the toast included; an attempt whose frame the
\* extractor finds no face in appends nothing and shows 'No face detected'.
C26_NoFaceRejected ==
    [][/\ (Attempted /\ ~faceDetected)
          => /\ call'.result = "returned"
             /\ NothingCaptured
             /\ UNCHANGED <<toast, captures>>
       /\ (Resumed /\ videoRef = "el" /\ ~unmounted
             /\ capturedDescriptors' = capturedDescriptors)
          => /\ NothingCaptured
             /\ toast' = "No face detected"
       /\ (Resumed /\ toast' = "No face detected") => NothingCaptured]_vars

\* With one embedding captured, an attempt found no face in its frame, and a
\* later one made while faceDetected was false has returned at once.
C26_Witness ==
    /\ call = [op |-> "captureFrame", result |-> "returned"]
    /\ ~faceDetected
    /\ isCameraActive
    /\ toast = "No face detected"
    /\ Len(capturedDescriptors) = 1
    /\ captures = 0

\* resetCaptures ran in this step: its toast (line 278) replaces another.
WasReset == toast' = "Captures reset" /\ toast # "Captures reset"

(***************************************************************************)
(* C27.  resetCaptures empties the captured embeddings and images and      *)
(* leaves the stream, streamRef, isCameraActive, the detection loop, the   *)
(* captureFrame calls in flight and the form data as they were.            *)
(***************************************************************************)
C27_ResetLeavesDevice ==
    [][WasReset
       => /\ capturedDescriptors' = <<>>
          /\ capturedImages' = <<>>
          /\ UNCHANGED <<liveStreams, streamRef, isCameraActive, faceDetected,
                         videoRef, animationRef, starts, captures, formData>>]_vars

\* The captures were reset with the camera active, the loop running and the
\* form filled in.
C27_Witness ==
    /\ toast = "Captures reset"
    /\ capturedDescriptors = <<>>
    /\ capturedImages = <<>>
    /\ isCameraActive
    /\ streamRef \in liveStreams
    /\ \E i \in StartIds : starts[i].pc \in {"scheduled", "detecting"}
    /\ formData.name # ""
    /\ formData.department # ""

(***************************************************************************)
(* The recognition page under the scheduling the rate-limit gate rests on: *)
(* an attendance insert is answered and a timeout that was set fires.      *)
(***************************************************************************)
GateFairness ==
    /\ \A i \in StartIds : WF_vars(InsertOk(i) \/ InsertError(i))
    /\ WF_vars(UnlockTimer)

GateSpec == Init /\ [][Next]_vars /\ GateFairness

(***************************************************************************)
(* C28.  Whenever processLockRef is set it is cleared later, whatever the  *)
(* attempt that set it came to: rejected, accepted without metadata,       *)
(* already marked, inserted or failed to insert.                           *)
(***************************************************************************)
C28_GateIsRearmed == processLockRef ~> ~processLockRef

\* The flag is clear and no timeout is pending after an insert that failed and
\* an attempt, the loop's last, that matched an identity without metadata.
C28_Witness ==
    /\ ~processLockRef
    /\ timers = 0
    /\ \E i \in StartIds : starts[i].attempt = "nometadata"
    /\ \E e \in DOMAIN insertLog : e.outcome = "error"

\* detectFace resolves in an iteration of loop i, which goes on to call
\* findBestMatch (line 168).
CallsMatcher(i) ==
    /\ starts[i].pc = "detecting"
    /\ starts'[i].pc # "detecting"
    /\ starts'[i].attempt \in {"rejected", "nometadata", "marked", "insert"}

(***************************************************************************)
(* C29.  The flag is set before the Extractor is invoked: an iteration     *)
(* that calls the Matcher has had processLockRef set while it awaited      *)
(* detectFace.                                                             *)
(***************************************************************************)
C29_ExtractorRunsUnderFlag ==
    [][\A i \in StartIds : CallsMatcher(i) => processLockRef]_vars

(***************************************************************************)
(* C30.  On a mounted page, an attempt that is rejected, or that matches   *)
(* an identity the metadata snapshot does not hold, leaves lastMatch null  *)
(* and issues no attendance insert.                                        *)
(***************************************************************************)
C30_RejectedClearsMatch ==
    [][\A i \in StartIds :
          (CallsMatcher(i) /\ ~unmounted
             /\ starts'[i].attempt \in {"rejected", "nometadata"})
          => /\ lastMatch' = <<>>
             /\ insertLog' = insertLog]_vars


(***************************************************************************)
(* The recognition page while the reference store is written from the      *)
(* other pages of the same origin: the enrollment page saves a record of   *)
(* E1 (saveFaceEncoding), the employees page deletes E1's records          *)
(* (deleteFaceEncoding).  The models are loaded; the store holds E2's      *)
(* record, and E1's or not, when getFaceEncodings is awaited (line 66).    *)
(***************************************************************************)
InitSnapshot ==
    /\ employeesTable = {[id |-> "E1", employee_id |-> "K1", is_active |-> TRUE],
                         [id |-> "E2", employee_id |-> "K2", is_active |-> FALSE]}
    /\ attendanceTable = EmptyBag
    /\ faceEncodings \in
          {{[id |-> 2, employeeId |-> "E2", descriptors |-> E2Descriptors]},
           {[id |-> 1, employeeId |-> "E1", descriptors |-> E1Descriptors],
            [id |-> 2, employeeId |-> "E2", descriptors |-> E2Descriptors]}}
    /\ clockDay = 1
    /\ liveStreams = {}
    /\ toast = ""
    /\ modelsLoaded = TRUE
    /\ initPc = "encodings"
    /\ initToday = 0
    /\ isModelLoading = FALSE
    /\ isCameraActive = FALSE
    /\ faceDetected = FALSE
    /\ isProcessing = FALSE
    /\ lastMatch = <<>>
    /\ recentAttendance = <<>>
    /\ markedToday = {}
    /\ storedFaces = <<>>
    /\ employees = {}
    /\ videoRef = "el"
    /\ streamRef = 0
    /\ animationRef = 0
    /\ processLockRef = FALSE
    /\ starts = [i \in StartIds |-> IdleStart]
    /\ timers = 0
    /\ unmounted = FALSE
    /\ clicksLeft = 1
    /\ insertLog = EmptyBag
    /\ InitReg
    /\ InitLib

\* The enrollment page saves E1's record (FaceRegistration.tsx line 254) when
\* the store holds none of E1.
EnrolledElsewhere ==
    /\ RecordsOf("E1") = {}
    /\ SaveFaceEncoding("E1")

\* The employees page deletes E1's records (Dashboard.tsx line 799), once.
DeletedElsewhere ==
    /\ deletion.pc = "idle"
    /\ DeleteFaceEncoding("E1")

SnapshotNext ==
    \/ InitLoadEncodings
    \/ InitLoadEmployees
    \/ InitLoadAttendance
    \/ \E i \in StartIds : StartCameraClick(i)
    \/ \E i \in StartIds : StartCameraResolve(i)
    \/ StopCamera
    \/ \E i \in StartIds : FrameTick(i)
    \/ \E i \in StartIds : DetectResume(i)
    \/ \E i \in StartIds : InsertOk(i)
    \/ \E i \in StartIds : InsertError(i)
    \/ UnlockTimer
    \/ EnrolledElsewhere
    \/ DeletedElsewhere
    \/ DeleteListed
    \/ DeleteOne

SnapshotSpec == InitSnapshot /\ [][SnapshotNext]_vars

\* A step of startCamera, stopCamera, detectAndMatch or markAttendance.
StepOfLoop ==
    \/ starts' # starts
    \/ timers' # timers
    \/ streamRef' # streamRef

\* The identities of a list of stored faces.
IdentitiesOf(faces) == {faces[k].employeeId : k \in DOMAIN faces}

\* C31: the reference snapshot and the identity metadata the recognition loop
\* uses are read-only while it runs.  No step of startCamera, stopCamera,
\* detectAndMatch or markAttendance changes the page's storedFaces or employees
\* or the reference store; a loop's own copy of them never changes once it was
\* started; and when the store is written after the snapshot was loaded, the
\* loop still matches against the snapshot: a check-in is issued only for an
\* identity of the snapshot, whatever the store holds by then.
C31_SnapshotIsReadOnly ==
    [][/\ StepOfLoop => /\ storedFaces' = storedFaces
                        /\ employees' = employees
                        /\ faceEncodings' = faceEncodings
       /\ \A i \in StartIds :
             starts[i].pc # "idle"
             => /\ starts'[i].storedFaces = starts[i].storedFaces
                /\ starts'[i].employees = starts[i].employees
                /\ starts[i].storedFaces = storedFaces
       /\ \A i \in StartIds :
             (CallsMatcher(i) /\ starts'[i].attempt = "insert")
             => starts'[i].pending[1].employee_id \in IdentitiesOf(storedFaces)]_vars

\* E1's records were deleted from the store after the snapshot was loaded, and
\* E1 is checked in all the same.
C31_Witness ==
    /\ initPc = "done"
    /\ RecordsOf("E1") = {}
    /\ "E1" \in IdentitiesOf(storedFaces)
    /\ deletion.pc = "done"
    /\ deletion.found > 0
    /\ \E i \in StartIds : /\ Inserting(i)
                           /\ starts[i].pending[1].employee_id = "E1"
                           /\ lastMatch # <<>>


\* C32: a lookup by identity returns the embeddings of every record stored for
\* that identity: when getFaceEncodingByEmployee(X) resolves, what it resolves
\* with holds each of X's records in the store.
C32_LookupReturnsAllRecords ==
    [][(lookedUp.pc = "opening" /\ lookedUp'.pc = "resolved")
       => {lookedUp'.result[k] : k \in DOMAIN lookedUp'.result}
             = RecordsOf(lookedUp.employeeId)]_vars


\* A saveFaceEncoding call has put its record.
Saved == deletion'.saves = deletion.saves + 1

\* C33: reference records are never changed in place.  Every saveFaceEncoding
\* adds one record under a key no record had, every record stored before is
\* still there unchanged, of the same identity or of another, and the number
\* of records grows by exactly one.
C33_SaveAddsOneRecord ==
    [][Saved
       => /\ faceEncodings \subseteq faceEncodings'
          /\ Cardinality(faceEncodings') = Cardinality(faceEncodings) + 1
          /\ \A r \in faceEncodings' \ faceEncodings :
                \A q \in faceEncodings : q.id # r.id]_vars

\* A record was saved for an identity that had records already.
C33_Witness ==
    /\ deletion.saves = 1
    /\ \E r \in faceEncodings :
          /\ r.id = MaxRecords + 1
          /\ Cardinality(RecordsOf(r.employeeId)) > 1
          /\ Cardinality(faceEncodings) > Cardinality(RecordsOf(r.employeeId))


\* handleSubmit ends with 'Registration successful!' (lines 254-262).
Enrolled == submits.pc = "saving" /\ submits'.result = "ok"

FieldEmpty(data) == data.name = "" \/ data.employeeId = "" \/ data.department = ""

\* C35: a submission with the quota reached and a required field (name,
\* identity key, department) empty is rejected before any store access.  The
\* handler returns with 'Missing information' and is suspended at no query:
\* no existence query, no employee insert and no reference insert is made for
\* it, and both stores are as they were; a submission that is at a query has
\* every required field filled in.
C35_MissingFieldRejected ==
    /\ [](submits.pc # "idle" => ~FieldEmpty(submits.formData))
    /\ [][(/\ submits.pc = "idle"
           /\ submits' # submits
           /\ Len(capturedDescriptors) >= REQUIRED_CAPTURES
           /\ FieldEmpty(formData))
          => /\ submits'.pc = "idle"
             /\ submits'.result = "missing"
             /\ toast' = "Missing information"
             /\ employeesTable' = employeesTable
             /\ faceEncodings' = faceEncodings
             /\ isProcessing' = isProcessing]_vars

\* A submission was rejected with five captures and only the department missing.
C35_Witness ==
    /\ submits.pc = "idle"
    /\ submits.result = "missing"
    /\ toast = "Missing information"
    /\ Len(capturedDescriptors) >= REQUIRED_CAPTURES
    /\ formData.name # ""
    /\ formData.employeeId # ""
    /\ formData.department = ""


(***************************************************************************)
(* Dashboard.tsx, Employees.handleDelete (lines 777-817), cut at its       *)
(* awaits: the delete of the employees row, then deleteFaceEncoding, whose *)
(* steps are those of indexedDb.ts above.                                  *)
(***************************************************************************)
\* handleDelete has returned: its result is kept as history.
Deleted(employee, isAdmin, result) ==
    [op |-> "handleDelete", pc |-> "returned", employee |-> employee,
     isAdmin |-> isAdmin, result |-> result]

\* The click on an employee's delete button: lines 778-789.
HandleDelete(employee, isAdmin) ==
    /\ call.op = "none"
    /\ \E r \in employeesTable : r.id = employee
    /\ IF ~isAdmin
       THEN /\ toast' = "Permission denied"
            /\ call' = Deleted(employee, isAdmin, "denied")
       ELSE /\ call' = [Deleted(employee, isAdmin, "none") EXCEPT !.pc = "row"]
            /\ UNCHANGED toast
    /\ UNCHANGED <<employeesTable, attendanceTable, faceEncodings, clockDay,
                   liveStreams, modelsLoaded, liveVars, regVars, deletion,
                   lookedUp, loads>>

\* The delete of the row answers (lines 789-796): the row is gone and
\* deleteFaceEncoding is called (line 799), or the table or the network refuses.
RowDeleted ==
    /\ call.op = "handleDelete"
    /\ call.pc = "row"
    /\ \/ /\ employeesTable' = {r \in employeesTable : r.id # call.employee}
          /\ call' = [call EXCEPT !.pc = "faces"]
          /\ deletion' = [pc |-> "opening", employeeId |-> call.employee,
                          encodings |-> <<>>, found |-> 0, inserted |-> FALSE,
                          saves |-> deletion.saves]
          /\ UNCHANGED toast
       \/ /\ toast' = "Error"
          /\ call' = [call EXCEPT !.pc = "returned", !.result = "error"]
          /\ UNCHANGED <<employeesTable, deletion>>
    /\ UNCHANGED <<attendanceTable, faceEncodings, clockDay, liveStreams,
                   modelsLoaded, liveVars, regVars, lookedUp, loads>>

\* deleteFaceEncoding has resolved (lines 801-806) or rejected (807-813).
FacesDeleted ==
    /\ call.op = "handleDelete"
    /\ call.pc = "faces"
    /\ deletion.pc \in {"done", "failed"}
    /\ toast' = IF deletion.pc = "done" THEN "Employee deleted" ELSE "Error"
    /\ call' = [call EXCEPT !.pc = "returned",
                            !.result = IF deletion.pc = "done" THEN "ok" ELSE "error"]
    /\ UNCHANGED <<employeesTable, attendanceTable, faceEncodings, clockDay,
                   liveStreams, modelsLoaded, liveVars, regVars, deletion,
                   lookedUp, loads>>

RemovalNext ==
    \/ \E employee \in EmployeeIds, isAdmin \in BOOLEAN : HandleDelete(employee, isAdmin)
    \/ RowDeleted
    \/ DeleteListed
    \/ DeleteOne
    \/ DeleteRejected
    \/ FacesDeleted

RemovalSpec == InitStore /\ [][RemovalNext]_vars

\* C36: removing an identity removes its reference data.  Once handleDelete
\* has returned with the employee's row deleted from the employees table, the
\* reference store holds no record of that employee; and a handleDelete by a
\* user who is not an admin leaves both stores as they were.
C36_RemovalRemovesReferenceData ==
    /\ []((/\ call.op = "handleDelete"
           /\ call.pc = "returned"
           /\ \A r \in employeesTable : r.id # call.employee)
          => RecordsOf(call.employee) = {})
    /\ [][(call.op = "none" /\ call'.op = "handleDelete" /\ ~call'.isAdmin)
          => /\ call'.pc = "returned"
             /\ employeesTable' = employeesTable
             /\ faceEncodings' = faceEncodings]_vars


\* The employees row the ending submission has created, if it created one.
CreatedBySubmission == {r \in employeesTable' : r.id = submits.employee}

\* C37: enrollment is all-or-nothing across the two stores.  When a
\* submission finishes, an employee row it created has a reference record in
\* the store; and a submission that finishes in failure leaves no employee row
\* of its own behind.
C37_EnrollmentAllOrNothing ==
    [][(submits.pc # "idle" /\ submits'.pc = "idle")
       => /\ CreatedBySubmission # {}
                => RecordsIn(faceEncodings', submits.employee) # {}
          /\ submits'.result # "ok" => CreatedBySubmission = {}]_vars


\* C38: the set of those already marked today only blocks identities that have
\* a check-in record dated the current calendar day.  Whenever detectAndMatch
\* recognizes an employee and skips the check-in as already marked (line 185),
\* the attendance table holds a row of that employee dated today; so across
\* midnight an employee marked the day before is checked in for the new day.
C38_BlockedOnlyIfMarkedToday ==
    [][\A i \in StartIds :
          (CallsMatcher(i) /\ ~unmounted /\ starts'[i].attempt = "marked")
          => \E r \in DOMAIN attendanceTable :
                /\ r.employee_id = lastMatch'[1].employee
                /\ r.date = clockDay]_vars


\* The row is one the recognition loop may send.
WellFormed(row) ==
    /\ row.confidence_score \in 50..100
    /\ row.status \in {"present", "late"}
    /\ row.employee_id \in ActiveEmployees

\* C39: every attendance record inserted by the recognition loop has a
\* confidence score from 50 to 100, a status 'present' or 'late', the calendar
\* date of its check-in time as date, and an employee of the active-employee
\* snapshot.  The confidence of every distance below the threshold is from 50
\* to 100; the row markAttendance sends is dated the day of the instant it was
\* made at and is of an employee of the loop's snapshot; the row stored is the
\* row sent; and every row of the table is so.
C39_InsertedRowsAreWellFormed ==
    /\ [](initPc = "models"
          => \A s \in 0..(MATCH_THRESHOLD - 1) : Confidence(s) \in 50..100)
    /\ [](\A row \in DOMAIN attendanceTable : WellFormed(row))
    /\ [][\A i \in StartIds :
             /\ (CallsMatcher(i) /\ starts'[i].attempt = "insert")
                => /\ WellFormed(starts'[i].pending[1])
                   /\ starts'[i].pending[1].date = clockDay
                   /\ starts'[i].pending[1].employee_id \in starts[i].employees
             /\ (Inserting(i) /\ attendanceTable' # attendanceTable)
                => attendanceTable' = BagAdd(attendanceTable, starts[i].pending[1])]_vars

\* A check-in made after midnight, later than 9:00, is stored.
C39_Witness ==
    \E row \in DOMAIN attendanceTable :
       /\ row.date = 2
       /\ row.status = "late"
       /\ row.employee_id = "E1"
       /\ \E e \in DOMAIN insertLog : e.outcome = "ok" /\ e.date = 2


\* The place p comes before the place q in the enumeration of findBestMatch:
\* identities in list order, embeddings in stored order.
Before(p, q) == p[1] < q[1] \/ (p[1] = q[1] /\ p[2] < q[2])

\* The places whose stored embedding is at the least distance.
Nearest == {p \in StoredAt(call.args[3]) :
               \A q \in StoredAt(call.args[3]) : DistanceAt(p) <= DistanceAt(q)}

\* C40: findBestMatch is deterministic on ties.  When several stored
\* embeddings are at the least distance, the identity returned is that of the
\* first of them in enumeration order (identities in list order, embeddings in
\* stored order), at that distance.
C40_FirstOfTiesReturned ==
    Matched
    => \A p \in Nearest :
          (\A q \in Nearest : p = q \/ Before(p, q))
          => /\ call.result # <<>>
             /\ call.result[1].employeeId = call.args[3][p[1]].employeeId
             /\ call.result[1].distance = DistanceAt(p)

\* Two identities each store an embedding at the same least distance, which is
\* not 0; the identity listed first is returned.
C40_Witness ==
    /\ Matched
    /\ Len(call.args[3]) = 2
    /\ call.args[3][1].employeeId # call.args[3][2].employeeId
    /\ {<<1, 1>>, <<2, 1>>} \subseteq Nearest
    /\ DistanceAt(<<1, 1>>) > 0
    /\ call.result[1].employeeId = call.args[3][1].employeeId

====
